---- MODULE Spec2Model ----
(***************************************************************************)
(* The per-project RAG ingestion pipeline of the portfolio application:    *)
(* the ProjectRAG row, the three ingestion paths (the Celery task          *)
(* process_project_rag_async, the command process_rag_async and the        *)
(* command process_project_rag), the admin hook, the sweeps of tasks.py    *)
(* and the chatbot endpoint project_chatbot_ask.                           *)
(*                                                                         *)
(* One project (id 1) with a GitHub URL is modelled.  A run holds its own  *)
(* in-memory ProjectRAG instance; save() writes every field of that        *)
(* instance to the row, so a run that loaded the row earlier overwrites    *)
(* what others stored since.  Every statement of a run or a request that   *)
(* reads or writes the tables is a step of its own.                        *)
(***************************************************************************)
EXTENDS Integers, Sequences, FiniteSets, TLC

VARIABLES
    db,        \* the ProjectRAG row of the project, or NoRow
    pc,        \* pc[r]: where run r stands
    kind,      \* kind[r]: which ingestion path run r executes
    force,     \* force[r]: the force flag run r was invoked with
    retries,   \* retries[r]: self.request.retries of a Celery task
    loc,       \* loc[r]: the ProjectRAG instance run r holds in memory
    chunks,    \* chunks[r]: the local variable chunks of run r
    calls,     \* calls[r]: the external calls the attempt has made
    exc,       \* exc[r]: the exception run r raised, on its way to the except clause
    returned,  \* what the handler that ran in the last step returned, if it ended
    deleted,   \* whether the project (and with it, by cascade, its row) was deleted
    scan,      \* the frame of a call of chunk_text followed through its loop
    invoked,   \* how many times an entry point was invoked, counted up to MaxCalls
    last_id    \* the last primary key the table of ProjectRAG gave out

vars == <<db, pc, kind, force, retries, loc, chunks, calls, exc, returned, deleted,
          scan, invoked, last_id>>

(***************************************************************************)
(* Bounds of the model.                                                    *)
(***************************************************************************)
MaxRuns == 2      \* run slots: how many runs can be queued or active at once
MaxCalls == 3     \* how many invocations of the entry points a behaviour is followed for
EmbedDim == 2     \* the dimension of the vectors the embedding provider returns
MaxChunks == 3    \* the longest chunk list given to an embedding step on its own
MaxLen == 6       \* the longest text given to chunk_text on its own
MaxSize == 5      \* the largest chunk_size given to chunk_text on its own
MaxFairLen == 4   \* the same two where every call is followed to its return
MaxFairSize == 3
MaxPeriods == 15  \* how many texts of the long-text call are drawn
MaxContext == 4   \* the longest list of retrieved chunks given to the generator on its own
MaxTurns == 5     \* the longest chat history given to the generator on its own

(***************************************************************************)
(* Program constants.                                                      *)
(***************************************************************************)
max_retries == 3            \* @shared_task(bind=True, max_retries=3)
DefaultChunkSize == 1000    \* chunk_text(..., chunk_size: int = 1000, ...)
DefaultOverlap == 200       \* chunk_text(..., overlap: int = 200)
DefaultBatchSize == 50      \* process_rag_async --batch-size default
SearchTopK == 5             \* search_similar_chunks(..., top_k=5)
PromptChunks == 3           \* context_chunks[:3]
PromptTurns == 4            \* chat_history[-4:]

RunIds == 1 .. MaxRuns

None == "<None>"

Max(a, b) == IF a >= b THEN a ELSE b
Min(a, b) == IF a <= b THEN a ELSE b

(***************************************************************************)
(* Python strings are sequences of one-character strings.                  *)
(***************************************************************************)
\* The characters for which str.isspace() holds.  Those without an escape
\* stand in the strings as they are: the vertical tab U+000B, the
\* separators U+001C to U+001F, the next line U+0085, the no-break space
\* U+00A0 and the ogham space U+1680.  (The Unicode spaces from U+2000 up
\* are whitespace for Python too; a string of the module cannot hold them.)
Whitespace ==
    {" ", "\t", "\n", "\r", "\f"}
    \cup {"", "", "", "", ""}
    \cup {"", " ", " "}

\* c.isspace() for a one-character string c
IsSpace(c) == c \in Whitespace

\* Python's adjustment of a slice index i for a sequence of length n.
SliceIndex(i, n) == IF i < 0 THEN Max(i + n, 0) ELSE Min(i, n)

\* text[a:b]
Slice(text, a, b) ==
    LET lo == SliceIndex(a, Len(text))
        hi == SliceIndex(b, Len(text))
    IN  IF lo >= hi THEN << >> ELSE SubSeq(text, lo + 1, hi)

\* text.rfind(c, a, b) for a one-character c: the highest 0-based index in
\* [a, b) holding c, or -1.
rfind(text, c, a, b) ==
    LET lo == SliceIndex(a, Len(text))
        hi == SliceIndex(b, Len(text))
        hits == {i \in lo .. (hi - 1) : text[i + 1] = c}
    IN  IF hits = {} THEN -1 ELSE CHOOSE i \in hits : \A j \in hits : j <= i

\* A strip that removes leading whitespace only.
strip_LeadingOnly(text) ==
    LET keep == {i \in 1 .. Len(text) : ~IsSpace(text[i])}
    IN  IF keep = {} THEN << >>
        ELSE SubSeq(text, CHOOSE i \in keep : \A j \in keep : i <= j, Len(text))

\* text.strip()
strip(text) ==
    LET keep == {i \in 1 .. Len(text) : ~IsSpace(text[i])}
    IN  IF keep = {} THEN << >>
        ELSE SubSeq(text,
                    CHOOSE i \in keep : \A j \in keep : i <= j,
                    CHOOSE i \in keep : \A j \in keep : j <= i)

(***************************************************************************)
(* ProjectRAGService.chunk_text.  ChunkEnd is the end the loop body settles *)
(* on for the chunk that begins at start; ChunkLoop is the while loop.     *)
(***************************************************************************)
ChunkEnd(text, chunk_size, start) ==
    LET end == start + chunk_size
        sentence_end == rfind(text, ".", start, end)
        word_end == rfind(text, " ", start, end)
    IN  IF end < Len(text)
        THEN IF sentence_end > start + (chunk_size \div 2)
             THEN sentence_end + 1
             ELSE IF word_end > start + (chunk_size \div 2)
                  THEN word_end
                  ELSE end
        ELSE end

\* A loop that may stay where it is.
NextStart_NoProgress(text, chunk_size, overlap, start) ==
    Max(start, ChunkEnd(text, chunk_size, start) - overlap)

\* A loop that begins the next chunk one character after the end.
NextStart_SkipsAhead(text, chunk_size, overlap, start) ==
    ChunkEnd(text, chunk_size, start) + 1

NextStart(text, chunk_size, overlap, start) ==
    Max(start + 1, ChunkEnd(text, chunk_size, start) - overlap)

RECURSIVE ChunkLoop(_, _, _, _, _)
ChunkLoop(text, chunk_size, overlap, start, acc) ==
    IF ~(start < Len(text)) THEN acc
    ELSE LET end == ChunkEnd(text, chunk_size, start)
             chunk == strip(Slice(text, start, end))
             out == IF chunk # << >> THEN Append(acc, chunk) ELSE acc
         IN  ChunkLoop(text, chunk_size, overlap,
                       NextStart(text, chunk_size, overlap, start), out)

chunk_text(text, chunk_size, overlap) ==
    IF text = << >> THEN << >>
    ELSE ChunkLoop(text, chunk_size, overlap, 0, << >>)

\* The frame of a call of chunk_text taken one loop iteration at a time:
\* its arguments, start, chunks, and the [start, end) of each iteration with
\* whether its chunk was appended.  NoScan when no call is followed.
NoScan == [at |-> "none"]

\* The frame on entry: "if not text: return []", else the loop begins.
ScanEntry(text, chunk_size, overlap) ==
    [at |-> IF text = << >> THEN "returned" ELSE "loop",
     text |-> text, chunk_size |-> chunk_size, overlap |-> overlap,
     start |-> 0, chunks |-> << >>, spans |-> << >>]

(***************************************************************************)
(* The ProjectRAG row (models.py).  repo_content is a Python string;       *)
(* embeddings_data is the empty string or the JSON text of one document.   *)
(***************************************************************************)
NoRow == [absent |-> TRUE]

EmptyString == [empty |-> TRUE]

\* json.dumps / json.loads of the embeddings document: the text of a dict.
json_dumps(data) == [json |-> data]
json_loads(s) == s.json

\* A setter that leaves the chunk list of a document the row already holds.
set_embeddings_data_KeepsChunks(row, data) ==
    [row EXCEPT !.embeddings_data =
        IF @ = EmptyString THEN json_dumps(data)
        ELSE json_dumps([data EXCEPT !.chunks = json_loads(row.embeddings_data).chunks])]

\* ProjectRAG.set_embeddings_data
set_embeddings_data(row, data) == [row EXCEPT !.embeddings_data = json_dumps(data)]

\* ProjectRAG.get_embeddings_data: None is NoDocument.
NoDocument == [nodocument |-> TRUE]
get_embeddings_data(row) ==
    IF row.embeddings_data # EmptyString
    THEN json_loads(row.embeddings_data)
    ELSE NoDocument

\* The field defaults of the model together with the defaults every
\* get_or_create of the ingestion paths passes, in the first row of the
\* table.
DefaultRow ==
    [id |-> 1,
     repo_content |-> << >>,
     embeddings_data |-> EmptyString,
     is_processed |-> FALSE,
     processing_error |-> None,
     processing_status |-> "pending",
     progress_percentage |-> 0]

\* ProjectRAG.objects.create(project=project, ...): the row inserted, under
\* the next primary key.
create(defaults, pk) == [defaults EXCEPT !.id = pk + 1]

\* ProjectRAG.objects.get_or_create(project=project, defaults=...): the row
\* the caller holds afterwards.
get_or_create(row, defaults, pk) == IF row = NoRow THEN create(defaults, pk) ELSE row

(***************************************************************************)
(* The external services: the reply of the Gitingest API to the project's  *)
(* URL and the behaviour of the embedding provider during one attempt.     *)
(***************************************************************************)
FetchError == [none |-> TRUE, text |-> << >>]          \* timeout, non-200, exception
FetchEmpty == [none |-> FALSE, text |-> << >>]         \* 200 with content ''
FetchBlank == [none |-> FALSE, text |-> <<" ", "\n">>] \* 200 with whitespace only
FetchText == [none |-> FALSE, text |-> <<"a", ".", " ", "b">>]
FetchOther == [none |-> FALSE, text |-> <<"c">>]               \* the repository after a push

\* The URL of the project is not one of github.com (the URLField takes any
\* URL): _extract_repo_path returns None and the fetch returns None before
\* it sends a request.
FetchNoPath == [none |-> TRUE, text |-> <<"no repository path">>]

FetchReplies == {FetchError, FetchEmpty, FetchBlank, FetchText, FetchOther, FetchNoPath}

\* The embedding provider: it answers every call, one of its calls raises, or
\* the client is not configured (no OPENAI_API_KEY).  "unasked" when the
\* attempt did not reach its embedding step.
EmbedProviders == {"ok", "api_error", "no_client"}

NoFetch == [none |-> TRUE, text |-> <<"unasked">>]

\* ProjectRAGService.fetch_repo_content_with_gitingest(github_url): the
\* content of the reply, None on any failure, and the requests it sent.
fetch_repo_content_with_gitingest(reply) ==
    [raised |-> FALSE, exc |-> "", value |-> reply,
     requests |-> IF reply = FetchNoPath THEN 0 ELSE 1]

\* The fetch call as each path writes it.  The task calls
\* rag_service.fetch_repo_content_async, which ProjectRAGService does not
\* define; process_rag_async passes timeout=20, which
\* fetch_repo_content_with_gitingest does not accept.  Both raise before any
\* request is sent.  The text of the TypeError is that of Python 3.10 and
\* later, which names the method with its class.
FetchCall(k, reply) ==
    CASE k = "task" ->
            [raised |-> TRUE,
             exc |-> "'ProjectRAGService' object has no attribute 'fetch_repo_content_async'",
             value |-> FetchError, requests |-> 0]
      [] k = "async_cmd" ->
            [raised |-> TRUE,
             exc |-> "ProjectRAGService.fetch_repo_content_with_gitingest() got an unexpected keyword argument 'timeout'",
             value |-> FetchError, requests |-> 0]
      [] OTHER -> fetch_repo_content_with_gitingest(reply)

\* The requests the call sent to the Gitingest API.
FetchRequests(k, reply) == FetchCall(k, reply).requests

\* The behaviours of the provider over the requests of one embedding step:
\* those above, a later request that raises, and answers whose vectors do not
\* all have one length.
EmbedReplies == EmbedProviders \cup {"api_error_2", "api_error_3", "ragged"}

\* The request of the step that raises, 0 when none does.
FailsAt(provider) ==
    CASE provider = "api_error" -> 1
      [] provider = "api_error_2" -> 2
      [] provider = "api_error_3" -> 3
      [] OTHER -> 0

\* The length of the vector answered for the i-th text of the step.
Dimension(provider, i) ==
    IF provider = "ragged" /\ i > 1 THEN EmbedDim + 1 ELSE EmbedDim

\* The vector the provider answers for a text: numbers that depend on the
\* text alone, and point in different directions for texts of even and of odd
\* length.
Vector(text, d) == [j \in 1 .. d |-> (Len(text) % 2) + j]
Embedding(text) == Vector(text, EmbedDim)

\* response.data[...].embedding for each text, in order.
Answered(cs, provider) ==
    [i \in 1 .. Len(cs) |-> Vector(cs[i], Dimension(provider, i))]

NoEmbeddings == [isnone |-> TRUE, rows |-> << >>]

\* The entries of a float32 matrix are held in thousandths, rounded down:
\* 1.0 is 1000 and 0.7071 is 707.
Scale == 1000

\* The rows of the matrix np.array(embeddings_list, dtype=np.float32).
float32_rows(embeddings_list) ==
    [i \in 1 .. Len(embeddings_list) |->
        [j \in 1 .. Len(embeddings_list[i]) |-> embeddings_list[i][j] * Scale]]

\* A matrix builder that takes rows of any lengths.
np_array_AcceptsRagged(embeddings_list) ==
    [isnone |-> FALSE, rows |-> float32_rows(embeddings_list)]

\* The matrix is built with all embeddings at once, after the loop, and the
\* index from the matrix.  np.array(embeddings_list, dtype=np.float32)
\* raises ValueError for rows of different lengths, inside the try of the
\* embedder: it returns None, None.
np_array(embeddings_list) ==
    IF \A i \in 1 .. Len(embeddings_list) :
           Len(embeddings_list[i]) = Len(embeddings_list[1])
    THEN [isnone |-> FALSE, rows |-> float32_rows(embeddings_list)]
    ELSE NoEmbeddings

RECURSIVE SumOfSquares(_)
SumOfSquares(row) ==
    IF row = << >> THEN 0 ELSE row[1] * row[1] + SumOfSquares(Tail(row))

RECURSIVE GCD(_, _)
GCD(a, b) == IF b = 0 THEN a ELSE GCD(b, a % b)

\* The greatest common divisor of the magnitudes of the entries of a row.
RECURSIVE RowGCD(_)
RowGCD(row) ==
    IF row = << >> THEN 0 ELSE GCD(Max(row[1], -row[1]), RowGCD(Tail(row)))

\* x / sqrt(s) in thousandths for 0 <= x and x * x <= s: the largest r in
\* lo .. hi with r * r * s <= (Scale * x) * (Scale * x).
RECURSIVE UnitEntry(_, _, _, _)
UnitEntry(x, s, lo, hi) ==
    IF lo >= hi THEN lo
    ELSE LET mid == (lo + hi + 1) \div 2
         IN  IF mid * mid * s <= Scale * Scale * x * x
             THEN UnitEntry(x, s, mid, hi)
             ELSE UnitEntry(x, s, lo, mid - 1)

\* faiss.normalize_L2(embeddings): every row is divided, in place, by its
\* norm; a row of norm 0 is left as it is.  The matrix the embedder returns
\* and the paths store is the normalised one.  The quotient of a row does not
\* change when its entries are divided by a common factor, and it is computed
\* on the row so reduced, from the exact sum of squares.
normalize_L2(m) ==
    IF m.isnone THEN m
    ELSE [m EXCEPT !.rows =
             [i \in 1 .. Len(m.rows) |->
                 IF RowGCD(m.rows[i]) = 0 THEN m.rows[i]
                 ELSE LET g == RowGCD(m.rows[i])
                          row == [j \in 1 .. Len(m.rows[i]) |-> m.rows[i][j] \div g]
                          s == SumOfSquares(row)
                      IN  [j \in 1 .. Len(row) |->
                              IF row[j] >= 0 THEN UnitEntry(row[j], s, 0, Scale)
                              ELSE 0 - UnitEntry(0 - row[j], s, 0, Scale)]]]

\* An embedder that returns what it has when a request raises.
create_embeddings_KeepsPartial(cs, provider) ==
    IF cs = << >> \/ provider = "no_client" THEN NoEmbeddings
    ELSE IF FailsAt(provider) \in 2 .. Len(cs)
    THEN normalize_L2(np_array(SubSeq(Answered(cs, provider), 1, FailsAt(provider) - 1)))
    ELSE IF FailsAt(provider) = 1 THEN NoEmbeddings
    ELSE normalize_L2(np_array(Answered(cs, provider)))

\* ProjectRAGService.create_embeddings(chunks): the matrix or None.  The
\* index is built from the same matrix and is None exactly when it is.  One
\* request per chunk; a request that raises ends the loop in the except
\* clause.
create_embeddings(cs, provider) ==
    IF cs = << >> \/ provider = "no_client" THEN NoEmbeddings
    ELSE IF FailsAt(provider) \in 1 .. Len(cs) THEN NoEmbeddings
    ELSE normalize_L2(np_array(Answered(cs, provider)))

\* total_batches = (len(chunks) + batch_size - 1) // batch_size
total_batches(n, batch_size) == (n + batch_size - 1) \div batch_size

\* Command.create_embeddings_with_delays(rag_service, chunks, batch_size, delay):
\* one request per batch.
create_embeddings_with_delays(cs, batch_size, provider) ==
    IF cs = << >> \/ provider = "no_client" THEN NoEmbeddings
    ELSE IF FailsAt(provider) \in 1 .. total_batches(Len(cs), batch_size) THEN NoEmbeddings
    ELSE normalize_L2(np_array(Answered(cs, provider)))

\* The provider calls the embedding step makes.
EmbedRequests(k, cs, batch_size, provider) ==
    IF provider = "no_client" \/ cs = << >> THEN 0
    ELSE LET total == IF k = "async_cmd" THEN total_batches(Len(cs), batch_size)
                      ELSE Len(cs)
         IN  IF FailsAt(provider) \in 1 .. total THEN FailsAt(provider) ELSE total

\* The dict each path serialises after a successful embedding step.
EmbeddingsDocument(cs, m) ==
    [chunks |-> cs,
     embeddings |-> m.rows,
     embedding_dimension |-> Len(m.rows[1]),
     num_chunks |-> Len(cs)]

(***************************************************************************)
(* The runs.  Every statement of a path that reads or writes the tables    *)
(* commits on its own, so the steps of others come between any two of      *)
(* them; a step is one such statement with the code that leads to it.  pc: *)
(* "idle" (free slot), "queued" (a task waiting in the broker), "handle"   *)
(* (process_project_rag called by the view, about to read the project),    *)
(* "project" (holding the project, about to make get_or_create), "start"   *)
(* (holding the instance, about to make the save that opens the run),      *)
(* "fetch", "chunk", "embed" (about to make that step), "final" (about to  *)
(* make the save that completes the run, the project having been found to  *)
(* exist), "except" (an exception was raised, about to run the except      *)
(* clause), "except_save" (in the except clause, about to save, the        *)
(* project having been found to exist).  A slot also carries a request of  *)
(* ProjectAdmin ("admin_project", "admin_get", "admin": about to save the  *)
(* project, to make get_or_create, to save the row it read; "admin_resave" *)
(* when it found the project gone and will only save it), a request of     *)
(* the view project_chatbot ("view_row": holding the project, about to     *)
(* read its row; "view_create": it found no row), a request of the view    *)
(* project_chatbot_ask ("ask_row": holding the project, about to read its  *)
(* row) and a sweep of cleanup_failed_rag_tasks that has read the failed   *)
(* row ("sweep").                                                          *)
(***************************************************************************)
Kinds == {"task", "async_cmd", "sync_cmd"}

\* What a slot can be doing besides a run.
OtherKinds ==
    {"none", "save_model", "save_model_unqueued", "project_chatbot",
     "project_chatbot_ask", "cleanup"}

NoCalls == [fetch |-> 0, embed |-> 0]

NoExc == [at |-> "none"]

\* What a run carries out of the body of its try: the text of the exception,
\* the step that raised it and what the services had answered by then.
Carried(msg, at, reply, provider) ==
    [msg |-> msg, at |-> at, fetch |-> reply, embed |-> provider]

\* Whether the path keeps processing_status and progress_percentage:
\* process_project_rag never assigns either.
TracksStatus(k) == k # "sync_cmd"

\* "Skip if already processed and not forcing": the task and
\* process_project_rag have the guard, process_rag_async has none.
SkipsProcessed(k, row, f) ==
    IF k = "async_cmd" THEN FALSE ELSE row.is_processed /\ ~f

\* The instance after the assignments that open a run, which the run saves
\* before it fetches.
StartFields(k, row) ==
    IF TracksStatus(k)
    THEN [row EXCEPT !.processing_status = "fetching",
                     !.progress_percentage = 10,
                     !.processing_error = None]
    ELSE [row EXCEPT !.is_processed = FALSE,
                     !.processing_error = None]

\* The instance after a fetch that returned content.
FetchedFields(k, row, text) ==
    IF TracksStatus(k)
    THEN [row EXCEPT !.repo_content = text,
                     !.processing_status = "chunking",
                     !.progress_percentage = 30]
    ELSE [row EXCEPT !.repo_content = text]

\* The instance after chunking produced chunks.
ChunkedFields(k, row) ==
    IF TracksStatus(k)
    THEN [row EXCEPT !.processing_status = "embedding",
                     !.progress_percentage = 50]
    ELSE row

\* The instance after the embeddings were created.
CompletedFields(k, row, cs, m) ==
    LET stored == set_embeddings_data(row, EmbeddingsDocument(cs, m))
    IN  IF TracksStatus(k)
        THEN [stored EXCEPT !.is_processed = TRUE,
                            !.processing_status = "completed",
                            !.progress_percentage = 100]
        ELSE [stored EXCEPT !.is_processed = TRUE]

\* The error message of the except clause of each path.
ExceptMessage(k, msg) ==
    IF k = "task" THEN "Error processing project 1: " \o msg
    ELSE "Error processing project: " \o msg

\* The instance the except clause of each path saves.
ExceptFields(k, row, msg) ==
    IF TracksStatus(k)
    THEN [row EXCEPT !.processing_error = ExceptMessage(k, msg),
                     !.processing_status = "failed"]
    ELSE [row EXCEPT !.processing_error = ExceptMessage(k, msg),
                     !.is_processed = FALSE]

\* The instance saved by an "if not ...: error_msg = ..." branch.
FailFields(k, row, msg) ==
    IF TracksStatus(k)
    THEN [row EXCEPT !.processing_error = msg,
                     !.processing_status = "failed"]
    ELSE [row EXCEPT !.processing_error = msg]

\* A task that is retried whatever its count of retries.
FailureResult_AlwaysRetries(k, n) ==
    IF k = "task" THEN "retry" ELSE "failed"

\* How a failed attempt ends: the task is retried while
\* self.request.retries < self.max_retries and raises afterwards; a command
\* returns.
FailureResult(k, n) ==
    IF k = "task" THEN (IF n < max_retries THEN "retry" ELSE "raised")
    ELSE "failed"

\* The embedding step of each path: the matrix or None.
EmbedCall(k, cs, batch_size, provider) ==
    IF k = "async_cmd" THEN create_embeddings_with_delays(cs, batch_size, provider)
    ELSE create_embeddings(cs, provider)

\* The test each path applies to the result of the embedding step:
\* "failed" takes the error branch, "raises" is process_project_rag reading
\* embeddings.size of None.
EmbedVerdict(k, m) ==
    IF k = "sync_cmd"
    THEN (IF m.isnone THEN "raises" ELSE "ok")
    ELSE (IF m.isnone THEN "failed" ELSE "ok")

Nothing == [op |-> "none"]

\* instance.save() of an instance that was read from the table: an UPDATE of
\* every field of the row with the primary key of the instance and, when
\* there is no such row, an INSERT of the instance.  The INSERT is rejected
\* (IntegrityError) by the foreign key of ProjectRAG.project when the
\* project was deleted, and by the uniqueness of the OneToOneField when the
\* project has got another row since.
Stores(inst) == ~deleted /\ (db = NoRow \/ db.id = inst.id)

\* What became of a save().
SaveOutcome(inst) == IF Stores(inst) THEN "stored" ELSE "rejected"

\* str() of the IntegrityError of a rejected INSERT, in the words of the
\* database (SQLite's here).
IntegrityError ==
    IF deleted THEN "FOREIGN KEY constraint failed"
    ELSE "UNIQUE constraint failed: portfolio_projectrag.project_id"

\* Whether the except clause of the path tests that the project still exists
\* before it saves (the commands do, the task does not), and whether the path
\* tests it before its final save (process_project_rag only).
ExceptChecks(k) == k # "task"
FinalChecks(k) == k = "sync_cmd"

\* What the end of an attempt reports: how it ended and at which step ("start"
\* before the save that opens the run, "open" at that save), what the
\* services answered (fetch, embed), the calls it made and what became of its
\* last save ("skipped" after a test that found the project gone, "none" when
\* the attempt had no instance to save).
Ended(r, result, at, reply, provider, n, save) ==
    [op |-> kind[r], result |-> result, at |-> at, force |-> force[r],
     fetch |-> reply, embed |-> provider, calls |-> n, save |-> save]

\* The slot of run r once its attempt is over.
Release(r, result) ==
    /\ pc' = [pc EXCEPT ![r] = IF result = "retry" THEN "queued" ELSE "idle"]
    /\ retries' = [retries EXCEPT ![r] = IF result = "retry" THEN @ + 1 ELSE 0]
    /\ kind' = [kind EXCEPT ![r] = IF result = "retry" THEN @ ELSE "none"]
    /\ force' = [force EXCEPT ![r] = IF result = "retry" THEN @ ELSE FALSE]
    /\ loc' = [loc EXCEPT ![r] = NoRow]
    /\ chunks' = [chunks EXCEPT ![r] = << >>]
    /\ calls' = [calls EXCEPT ![r] = NoCalls]
    /\ exc' = [exc EXCEPT ![r] = NoExc]

\* Run r goes on to its next statement holding the instance as assigned.
GoOn(r, inst, cs, next, n) ==
    /\ loc' = [loc EXCEPT ![r] = inst]
    /\ chunks' = [chunks EXCEPT ![r] = cs]
    /\ calls' = [calls EXCEPT ![r] = n]
    /\ pc' = [pc EXCEPT ![r] = next]
    /\ returned' = Nothing
    /\ UNCHANGED <<kind, force, retries, exc>>

\* An exception leaves the body of the try of run r, which holds the
\* instance as assigned so far: the except clause comes next.
Raise(r, inst, at, msg, reply, provider, n) ==
    /\ loc' = [loc EXCEPT ![r] = inst]
    /\ exc' = [exc EXCEPT ![r] = Carried(msg, at, reply, provider)]
    /\ calls' = [calls EXCEPT ![r] = n]
    /\ pc' = [pc EXCEPT ![r] = "except"]
    /\ returned' = Nothing
    /\ UNCHANGED <<kind, force, retries, chunks>>

\* An attempt ends in failure with the save it made last, if any.
EndFailed(r, row, save, at, reply, provider, n) ==
    LET result == FailureResult(kind[r], retries[r])
    IN  /\ db' = IF save = "stored" THEN row ELSE db
        /\ returned' = Ended(r, result, at, reply, provider, n, save)
        /\ Release(r, result)

TypeOK ==
    /\ pc \in [RunIds -> {"idle", "queued", "handle", "project", "start", "fetch",
                          "chunk", "embed", "final", "except", "except_save",
                          "admin_project", "admin_resave", "admin_get", "admin",
                          "view_row", "view_create", "ask_row", "sweep"}]
    /\ kind \in [RunIds -> Kinds \cup OtherKinds]
    /\ force \in [RunIds -> BOOLEAN]
    /\ retries \in [RunIds -> 0 .. max_retries]
    /\ deleted \in BOOLEAN
    /\ deleted => db = NoRow
    /\ invoked \in 0 .. MaxCalls
    /\ last_id \in 0 .. MaxCalls
    /\ db # NoRow => db.id \in 1 .. last_id
    /\ \A r \in RunIds :
           /\ loc[r] # NoRow => loc[r].id \in 1 .. last_id
           /\ (exc[r] # NoExc) = (pc[r] \in {"final", "except", "except_save"})
           /\ pc[r] \in {"start", "fetch", "chunk", "embed", "final", "except_save"}
              => loc[r] # NoRow

Init ==
    /\ db = NoRow
    /\ deleted = FALSE
    /\ scan = NoScan
    /\ invoked = 0
    /\ last_id = 0
    /\ pc = [r \in RunIds |-> "idle"]
    /\ kind = [r \in RunIds |-> "none"]
    /\ force = [r \in RunIds |-> FALSE]
    /\ retries = [r \in RunIds |-> 0]
    /\ loc = [r \in RunIds |-> NoRow]
    /\ chunks = [r \in RunIds |-> << >>]
    /\ calls = [r \in RunIds |-> NoCalls]
    /\ exc = [r \in RunIds |-> NoExc]
    /\ returned = Nothing

(***************************************************************************)
(* Triggers.  A new run takes the lowest free slot.  Every invocation of   *)
(* an entry point (a trigger, a command, a sweep, a request) is counted.   *)
(***************************************************************************)
Invoked == invoked' = Min(invoked + 1, MaxCalls)

Free(r) == pc[r] = "idle" /\ \A q \in RunIds : q < r => pc[q] # "idle"

\* Slot r is taken by a handler that stands at pc value at.
Enter(r, k, f, at) ==
    /\ Free(r)
    /\ pc' = [pc EXCEPT ![r] = at]
    /\ kind' = [kind EXCEPT ![r] = k]
    /\ force' = [force EXCEPT ![r] = f]
    /\ retries' = [retries EXCEPT ![r] = 0]
    /\ returned' = Nothing
    /\ Invoked

\* An invocation that finds nothing to do and returns: no slot is taken.
NothingToDo(r) ==
    /\ r = 1
    /\ returned' = Nothing
    /\ Invoked
    /\ UNCHANGED <<pc, kind, force, retries>>

\* The handler of slot r returns without an attempt to report.
Leave(r) ==
    /\ pc' = [pc EXCEPT ![r] = "idle"]
    /\ kind' = [kind EXCEPT ![r] = "none"]
    /\ force' = [force EXCEPT ![r] = FALSE]
    /\ retries' = [retries EXCEPT ![r] = 0]
    /\ loc' = [loc EXCEPT ![r] = NoRow]
    /\ returned' = Nothing

\* process_project_rag_async.delay(project_id, force): the task is queued,
\* whatever the project_id.
Delay(r, f) ==
    /\ Enter(r, "task", f, "queued")
    /\ UNCHANGED <<db, loc, chunks, calls, exc, deleted, scan, last_id>>

\* Project.objects.filter(github_url__isnull=False,
\* rag_data__processing_status__in=['pending', 'failed']): whether the query
\* of batch_process_rag_projects and of process_rag_async finds the project.
pending_projects ==
    IF db = NoRow THEN FALSE ELSE db.processing_status \in {"pending", "failed"}

\* batch_process_rag_projects: a task without force for every project whose
\* row is pending or failed.
batch_process_rag_projects(r) ==
    /\ IF pending_projects
       THEN Enter(r, "task", FALSE, "queued")
       ELSE NothingToDo(r)
    /\ UNCHANGED <<db, loc, chunks, calls, exc, deleted, scan, last_id>>

(***************************************************************************)
(* ProjectAdmin.save_model for a change of the project that adds or        *)
(* changes its GitHub URL: the project is read and saved, the row is       *)
(* created, or read, reset and saved, then the task is queued.             *)
(***************************************************************************)
AdminDefaults == [DefaultRow EXCEPT !.processing_error = "Queued for processing"]

\* The instance save_model saves when the row existed.
SaveModelRow(row) ==
    [row EXCEPT !.is_processed = FALSE,
                !.processing_error = "Queued for reprocessing"]

\* process_project_rag_async.delay(obj.id) at the end of save_model: the task
\* takes the place of the request, or .delay raises (the broker is
\* unreachable), the exception is caught and nothing is queued.
DelayFromAdmin(r, broker_up) ==
    /\ pc' = [pc EXCEPT ![r] = IF broker_up THEN "queued" ELSE "idle"]
    /\ kind' = [kind EXCEPT ![r] = IF broker_up THEN "task" ELSE "none"]
    /\ force' = [force EXCEPT ![r] = FALSE]
    /\ retries' = [retries EXCEPT ![r] = 0]
    /\ loc' = [loc EXCEPT ![r] = NoRow]

\* The request up to Project.objects.get(pk=obj.pk).  With the project gone
\* the DoesNotExist is caught and github_url_changed stays False: the
\* request will only save the project.
SaveModelEntry(r, k) ==
    /\ Enter(r, k, FALSE, IF deleted THEN "admin_resave" ELSE "admin_project")
    /\ UNCHANGED <<db, loc, chunks, calls, exc, deleted, scan, last_id>>

save_model(r) == SaveModelEntry(r, "save_model")

\* The same when .delay raises.
save_model_unqueued(r) == SaveModelEntry(r, "save_model_unqueued")

\* super().save_model(request, obj, form, change), which is obj.save(): an
\* UPDATE of the project and, when it was deleted since the form was
\* loaded, an INSERT of it under its primary key.  The request whose
\* github_url_changed is False returns after it.
super_save_model(r) ==
    /\ pc[r] \in {"admin_project", "admin_resave"}
    /\ deleted' = FALSE
    /\ IF pc[r] = "admin_project"
       THEN /\ pc' = [pc EXCEPT ![r] = "admin_get"]
            /\ returned' = Nothing
            /\ UNCHANGED <<kind, force, retries, loc>>
       ELSE Leave(r)
    /\ UNCHANGED <<db, chunks, calls, exc, scan, invoked, last_id>>

\* get_or_create of the request.  A row that was created needs no save and
\* the task is queued; for a row that existed the request holds the instance
\* it read.  With the project gone the INSERT is rejected, the outer except
\* clause catches the IntegrityError and nothing is queued.
save_model_get_or_create(r) ==
    /\ pc[r] = "admin_get"
    /\ IF deleted
       THEN /\ Leave(r)
            /\ UNCHANGED <<db, last_id>>
       ELSE /\ db' = get_or_create(db, AdminDefaults, last_id)
            /\ last_id' = IF db = NoRow THEN last_id + 1 ELSE last_id
            /\ returned' = Nothing
            /\ IF db = NoRow
               THEN DelayFromAdmin(r, kind[r] = "save_model")
               ELSE /\ pc' = [pc EXCEPT ![r] = "admin"]
                    /\ loc' = [loc EXCEPT ![r] = db]
                    /\ UNCHANGED <<kind, force, retries>>
    /\ UNCHANGED <<chunks, calls, exc, deleted, scan, invoked>>

\* rag_data.save() of the request, which writes every field of the instance
\* it read, and the .delay that follows.  When the save is rejected, the
\* exception is caught by the outer except clause and nothing is queued.
rag_data_save(r) ==
    /\ pc[r] = "admin"
    /\ db' = IF Stores(loc[r]) THEN SaveModelRow(loc[r]) ELSE db
    /\ DelayFromAdmin(r, kind[r] = "save_model" /\ Stores(loc[r]))
    /\ returned' = Nothing
    /\ UNCHANGED <<chunks, calls, exc, deleted, scan, invoked, last_id>>

(***************************************************************************)
(* The entry of each path, up to Project.objects.get.                      *)
(***************************************************************************)
\* The worker takes the task from the queue: Project.objects.get.  When the
\* project is gone it raises DoesNotExist and the task raises without retry.
TaskStart(r) ==
    /\ pc[r] = "queued"
    /\ IF deleted
       THEN /\ returned' = Ended(r, "raised", "start", NoFetch, "unasked", NoCalls, "none")
            /\ Release(r, "raised")
       ELSE /\ pc' = [pc EXCEPT ![r] = "project"]
            /\ returned' = Nothing
            /\ UNCHANGED <<kind, force, retries, loc, chunks, calls, exc>>
    /\ UNCHANGED <<db, deleted, scan, invoked, last_id>>

\* manage.py process_project_rag --project-id 1 [--force]: Command.handle
\* reads the project and calls process_project; with the project gone it
\* writes 'not found'.
process_project(r, f) ==
    /\ IF deleted
       THEN NothingToDo(r)
       ELSE Enter(r, "sync_cmd", f, "project")
    /\ UNCHANGED <<db, loc, chunks, calls, exc, deleted, scan, last_id>>

\* manage.py process_rag_async: with --project-id the project is read and
\* processed whatever its row says; without, the projects whose row is
\* pending or failed are read and processed.
process_project_async(r, byId) ==
    /\ IF (byId /\ ~deleted) \/ (~byId /\ pending_projects)
       THEN Enter(r, "async_cmd", FALSE, "project")
       ELSE NothingToDo(r)
    /\ UNCHANGED <<db, loc, chunks, calls, exc, deleted, scan, last_id>>

\* The view project_chatbot (RAG_AVAILABLE set, the project with a
\* github_url): get_object_or_404(Project, pk=pk).  Without the project it
\* answers 404; with it the request goes on holding the project.
project_chatbot(r) ==
    /\ IF deleted THEN NothingToDo(r)
       ELSE Enter(r, "project_chatbot", FALSE, "view_row")
    /\ UNCHANGED <<db, loc, chunks, calls, exc, deleted, scan, last_id>>

\* rag_data = project.rag_data of the view, a SELECT of its own: a processed
\* row is rendered at once; for a row that is not processed the view calls
\* process_project_rag; with no row (none was made, or it went with the
\* project since the view read the project) it goes on to create one.
project_chatbot_rag_data(r) ==
    /\ pc[r] = "view_row"
    /\ IF db = NoRow
       THEN /\ pc' = [pc EXCEPT ![r] = "view_create"]
            /\ returned' = Nothing
            /\ UNCHANGED <<kind, force, retries, loc>>
       ELSE IF db.is_processed
       THEN Leave(r)
       ELSE /\ pc' = [pc EXCEPT ![r] = "handle"]
            /\ kind' = [kind EXCEPT ![r] = "sync_cmd"]
            /\ returned' = Nothing
            /\ UNCHANGED <<force, retries, loc>>
    /\ UNCHANGED <<db, chunks, calls, exc, deleted, scan, invoked, last_id>>

\* ProjectRAG.objects.create(project=project, repo_content='',
\* embeddings_data='', is_processed=False) of the view, then its call of
\* process_project_rag.  An INSERT that is rejected (the project is gone, or
\* has got a row since) ends the request in its except clause.
project_chatbot_create(r) ==
    /\ pc[r] = "view_create"
    /\ IF ~deleted /\ db = NoRow
       THEN /\ db' = create(DefaultRow, last_id)
            /\ last_id' = last_id + 1
            /\ pc' = [pc EXCEPT ![r] = "handle"]
            /\ kind' = [kind EXCEPT ![r] = "sync_cmd"]
            /\ returned' = Nothing
            /\ UNCHANGED <<force, retries, loc>>
       ELSE /\ Leave(r)
            /\ UNCHANGED <<db, last_id>>
    /\ UNCHANGED <<chunks, calls, exc, deleted, scan, invoked>>

\* Command.handle of process_project_rag called by the view:
\* Project.objects.get.  With the project gone it writes 'not found' and
\* returns.
handle(r) ==
    /\ pc[r] = "handle"
    /\ IF deleted
       THEN Leave(r)
       ELSE /\ pc' = [pc EXCEPT ![r] = "project"]
            /\ returned' = Nothing
            /\ UNCHANGED <<kind, force, retries, loc>>
    /\ UNCHANGED <<db, chunks, calls, exc, deleted, scan, invoked, last_id>>

(***************************************************************************)
(* The steps of a run.                                                     *)
(***************************************************************************)
\* get_or_create (a SELECT, and an INSERT when there is no row) and the test
\* that skips a processed row.  The run that goes on holds the instance as it
\* read it.  With the project gone the INSERT is rejected and get_or_create
\* raises the IntegrityError, the run holding no instance.
Begin(r) ==
    /\ pc[r] = "project"
    /\ IF deleted
       THEN /\ Raise(r, NoRow, "start", IntegrityError, NoFetch, "unasked", calls[r])
            /\ UNCHANGED <<db, last_id>>
       ELSE LET row == get_or_create(db, DefaultRow, last_id)
            IN  /\ db' = row
                /\ last_id' = IF db = NoRow THEN last_id + 1 ELSE last_id
                /\ IF SkipsProcessed(kind[r], row, force[r])
                   THEN /\ returned' = Ended(r, "skipped", "start", NoFetch, "unasked",
                                             NoCalls, "none")
                        /\ Release(r, "skipped")
                   ELSE GoOn(r, row, chunks[r], "start", calls[r])
    /\ UNCHANGED <<deleted, scan, invoked>>

\* The assignments that open the run and the save() that follows them: an
\* UPDATE of every field of the instance the run read at its get_or_create
\* (an INSERT when the row was removed since), whatever the row holds now.
OpeningSave(r) ==
    /\ pc[r] = "start"
    /\ LET inst == StartFields(kind[r], loc[r])
       IN  IF Stores(loc[r])
           THEN /\ db' = inst
                /\ GoOn(r, inst, chunks[r], "fetch", calls[r])
           ELSE /\ db' = db
                /\ Raise(r, inst, "open", IntegrityError, NoFetch, "unasked", calls[r])
    /\ UNCHANGED <<deleted, scan, invoked, last_id>>

\* An "if not ...:" branch: the error is assigned and the instance saved.
\* The commands then return; the task raises Exception(error_msg), which its
\* own except clause catches.
Fail(r, msg, at, reply, provider, n) ==
    LET k == kind[r]
        marked == FailFields(k, loc[r], msg)
    IN  IF ~Stores(loc[r])
        THEN /\ db' = db
             /\ Raise(r, marked, at, IntegrityError, reply, provider, n)
        ELSE IF k = "task"
        THEN /\ db' = marked
             /\ Raise(r, marked, at, msg, reply, provider, n)
        ELSE EndFailed(r, marked, "stored", at, reply, provider, n)

\* The fetch call and what follows it up to the next save.
FetchStep(r, reply) ==
    LET k == kind[r]
        res == FetchCall(k, reply)
        n == [calls[r] EXCEPT !.fetch = @ + FetchRequests(k, reply)]
        fetched == FetchedFields(k, loc[r], res.value.text)
    IN  IF res.raised
        THEN /\ db' = db
             /\ Raise(r, loc[r], "fetch", res.exc, reply, "unasked", n)
        ELSE IF res.value.none \/ res.value.text = << >>
        THEN Fail(r, "Failed to fetch repository content", "fetch", reply, "unasked", n)
        ELSE IF ~TracksStatus(k)
        THEN /\ db' = db
             /\ GoOn(r, fetched, chunks[r], "chunk", n)
        ELSE IF Stores(loc[r])
        THEN /\ db' = fetched
             /\ GoOn(r, fetched, chunks[r], "chunk", n)
        ELSE /\ db' = db
             /\ Raise(r, fetched, "fetch", IntegrityError, reply, "unasked", n)

\* The replies a fetch step is followed under.  A call that raises before
\* it sends a request is followed for a service that would have answered
\* with text.
RepliesFor(k) == IF FetchCall(k, FetchText).raised THEN {FetchText} ELSE FetchReplies

Fetch(r) ==
    /\ pc[r] = "fetch"
    /\ \E reply \in RepliesFor(kind[r]) : FetchStep(r, reply)
    /\ UNCHANGED <<deleted, scan, invoked, last_id>>

\* The reply the attempt fetched, as its instance holds it.
Fetched(r) == [none |-> FALSE, text |-> loc[r].repo_content]

Chunk(r) ==
    /\ pc[r] = "chunk"
    /\ LET k == kind[r]
           cs == chunk_text(loc[r].repo_content, DefaultChunkSize, DefaultOverlap)
           chunked == ChunkedFields(k, loc[r])
       IN  IF cs = << >>
           THEN Fail(r, "No content chunks generated", "chunk", Fetched(r), "unasked",
                     calls[r])
           ELSE IF ~TracksStatus(k)
           THEN /\ db' = db
                /\ GoOn(r, chunked, cs, "embed", calls[r])
           ELSE IF Stores(loc[r])
           THEN /\ db' = chunked
                /\ GoOn(r, chunked, cs, "embed", calls[r])
           ELSE /\ db' = db
                /\ Raise(r, chunked, "chunk", IntegrityError, Fetched(r), "unasked",
                         calls[r])
    /\ UNCHANGED <<deleted, scan, invoked, last_id>>

\* The embedding step and what follows it up to the next statement on the
\* tables: the save of a branch that failed, the save that completes the run
\* or, in process_project_rag, the test that the project still exists.
EmbedStep(r, batch_size, provider) ==
    LET k == kind[r]
        m == EmbedCall(k, chunks[r], batch_size, provider)
        verdict == EmbedVerdict(k, m)
        n == [calls[r] EXCEPT !.embed = @ + EmbedRequests(k, chunks[r], batch_size, provider)]
        completed == CompletedFields(k, loc[r], chunks[r], m)
    IN  CASE verdict = "raises" ->
                 /\ db' = db
                 /\ Raise(r, loc[r], "embed", "'NoneType' object has no attribute 'size'",
                          Fetched(r), provider, n)
          [] verdict = "failed" ->
                 Fail(r, "Failed to create embeddings", "embed", Fetched(r), provider, n)
          [] verdict = "ok" /\ FinalChecks(k) /\ deleted ->
                 /\ db' = db
                 /\ returned' = Ended(r, "deleted", "embed", Fetched(r), provider, n,
                                      "skipped")
                 /\ Release(r, "deleted")
          [] verdict = "ok" /\ FinalChecks(k) /\ ~deleted ->
                 /\ db' = db
                 /\ loc' = [loc EXCEPT ![r] = completed]
                 /\ exc' = [exc EXCEPT ![r] = Carried("", "embed", Fetched(r), provider)]
                 /\ calls' = [calls EXCEPT ![r] = n]
                 /\ pc' = [pc EXCEPT ![r] = "final"]
                 /\ returned' = Nothing
                 /\ UNCHANGED <<kind, force, retries, chunks>>
          [] verdict = "ok" /\ ~FinalChecks(k) /\ Stores(loc[r]) ->
                 /\ db' = completed
                 /\ returned' = Ended(r, "success", "embed", Fetched(r), provider, n,
                                      "stored")
                 /\ Release(r, "success")
          [] OTHER ->
                 /\ db' = db
                 /\ Raise(r, completed, "embed", IntegrityError, Fetched(r), provider, n)

Embed(r) ==
    /\ pc[r] = "embed"
    /\ \E provider \in EmbedProviders : EmbedStep(r, DefaultBatchSize, provider)
    /\ UNCHANGED <<deleted, scan, invoked, last_id>>

\* "with transaction.atomic(): project_rag.save()" of process_project_rag,
\* after the test that found the project.
FinalSave(r) ==
    /\ pc[r] = "final"
    /\ IF Stores(loc[r])
       THEN /\ db' = loc[r]
            /\ returned' = Ended(r, "success", "embed", exc[r].fetch, exc[r].embed,
                                 calls[r], "stored")
            /\ Release(r, "success")
       ELSE /\ db' = db
            /\ Raise(r, loc[r], "embed", IntegrityError, exc[r].fetch, exc[r].embed,
                     calls[r])
    /\ UNCHANGED <<deleted, scan, invoked, last_id>>

\* The except clause up to its first statement on the tables.  The task
\* saves the instance if it has one ('project_rag' in locals()), a rejected
\* save being passed over, and is retried or raises.  The commands test that
\* the project exists: when it is gone they make no save; when it is there
\* and get_or_create had raised, the assignment to project_rag raises
\* UnboundLocalError, which is passed over.
Except(r) ==
    /\ pc[r] = "except"
    /\ LET k == kind[r]
           e == exc[r]
       IN  IF ExceptChecks(k) /\ deleted
           THEN EndFailed(r, db, "skipped", e.at, e.fetch, e.embed, calls[r])
           ELSE IF loc[r] = NoRow
           THEN EndFailed(r, db, "none", e.at, e.fetch, e.embed, calls[r])
           ELSE IF ExceptChecks(k)
           THEN /\ pc' = [pc EXCEPT ![r] = "except_save"]
                /\ db' = db
                /\ returned' = Nothing
                /\ UNCHANGED <<kind, force, retries, loc, chunks, calls, exc>>
           ELSE EndFailed(r, ExceptFields(k, loc[r], e.msg), SaveOutcome(loc[r]),
                          e.at, e.fetch, e.embed, calls[r])
    /\ UNCHANGED <<deleted, scan, invoked, last_id>>

\* project_rag.save() in the except clause of a command, after the test
\* that found the project; a rejected save is passed over.
ExceptSave(r) ==
    /\ pc[r] = "except_save"
    /\ EndFailed(r, ExceptFields(kind[r], loc[r], exc[r].msg), SaveOutcome(loc[r]),
                 exc[r].at, exc[r].fetch, exc[r].embed, calls[r])
    /\ UNCHANGED <<deleted, scan, invoked, last_id>>

\* The project is deleted (through the admin): its row goes with it
\* (on_delete=CASCADE).  The runs in flight keep their instances.
delete_project ==
    /\ ~deleted
    /\ deleted' = TRUE
    /\ db' = NoRow
    /\ returned' = Nothing
    /\ Invoked
    /\ UNCHANGED <<pc, kind, force, retries, loc, chunks, calls, exc, scan, last_id>>

(***************************************************************************)
(* ProjectRAGAdmin: the rows themselves in the admin site.  The form holds *)
(* project, is_processed and processing_error; the other fields are not on *)
(* it.  A change saves the row with the two values as entered, an empty    *)
(* text area giving the empty string; a row can be deleted alone, and      *)
(* added for a project that has none.                                      *)
(***************************************************************************)
\* The texts entered as processing_error: none, or the text the form showed.
EnteredErrors(row) ==
    {""} \cup (IF row = NoRow THEN {} ELSE {row.processing_error} \ {None})

ProjectRAGAdmin_change ==
    /\ db # NoRow
    /\ \E is_processed \in BOOLEAN, processing_error \in EnteredErrors(db) :
           db' = [db EXCEPT !.is_processed = is_processed,
                            !.processing_error = processing_error]
    /\ returned' = Nothing
    /\ Invoked
    /\ UNCHANGED <<pc, kind, force, retries, loc, chunks, calls, exc, deleted, scan, last_id>>

ProjectRAGAdmin_add ==
    /\ ~deleted
    /\ db = NoRow
    /\ \E is_processed \in BOOLEAN, processing_error \in EnteredErrors(NoRow) :
           db' = create([DefaultRow EXCEPT !.is_processed = is_processed,
                                           !.processing_error = processing_error],
                        last_id)
    /\ last_id' = last_id + 1
    /\ returned' = Nothing
    /\ Invoked
    /\ UNCHANGED <<pc, kind, force, retries, loc, chunks, calls, exc, deleted, scan>>

ProjectRAGAdmin_delete ==
    /\ db # NoRow
    /\ db' = NoRow
    /\ returned' = Nothing
    /\ Invoked
    /\ UNCHANGED <<pc, kind, force, retries, loc, chunks, calls, exc, deleted, scan, last_id>>

(***************************************************************************)
(* cleanup_failed_rag_tasks: every row that is failed is reset and saved.  *)
(***************************************************************************)
\* A reset that leaves the error message.
CleanupFields_KeepsError(row) ==
    [row EXCEPT !.processing_status = "pending",
                !.progress_percentage = 0]

CleanupFields(row) ==
    [row EXCEPT !.processing_status = "pending",
                !.progress_percentage = 0,
                !.processing_error = None]

\* ProjectRAG.objects.filter(processing_status='failed')
failed_rags == db # NoRow /\ db.processing_status = "failed"

\* The sweep up to the first iteration of its loop: the query is evaluated
\* and the sweep holds the instances of the rows that were failed.  With no
\* such row it returns at once.
cleanup_failed_rag_tasks(r) ==
    /\ IF failed_rags
       THEN /\ Free(r)
            /\ pc' = [pc EXCEPT ![r] = "sweep"]
            /\ kind' = [kind EXCEPT ![r] = "cleanup"]
            /\ loc' = [loc EXCEPT ![r] = db]
            /\ returned' = Nothing
       ELSE /\ r = 1
            /\ returned' = [op |-> "cleanup_failed_rag_tasks", count |-> 0,
                            read |-> NoRow, save |-> "none"]
            /\ UNCHANGED <<pc, kind, loc>>
    /\ Invoked
    /\ UNCHANGED <<db, force, retries, chunks, calls, exc, deleted, scan, last_id>>

\* The body of the loop for the instance read: the reset and rag.save(), an
\* UPDATE of every field of the instance (an INSERT when the row was removed
\* since).  When the save is rejected the sweep raises.
rag_save(r) ==
    /\ pc[r] = "sweep"
    /\ db' = IF Stores(loc[r]) THEN CleanupFields(loc[r]) ELSE db
    /\ returned' = [op |-> "cleanup_failed_rag_tasks",
                    count |-> IF Stores(loc[r]) THEN 1 ELSE 0,
                    read |-> loc[r],
                    save |-> SaveOutcome(loc[r])]
    /\ Release(r, "done")
    /\ UNCHANGED <<deleted, scan, invoked, last_id>>

(***************************************************************************)
(* project_chatbot_ask (views.py).  A request carries a body; the module   *)
(* flag RAG_AVAILABLE, the local imports and the two providers are the     *)
(* environment of the request.                                             *)
(***************************************************************************)
Bodies == {"no_message", "message"}

Providers == {"ok", "api_error", "no_client"}

\* The requests: each input the view reads varied with the ones it reads
\* before it at their passing values.
AskInput(b, available, imports, openai, groq) ==
    [body |-> b, rag_available |-> available, imports |-> imports,
     openai |-> openai, groq |-> groq]

AskInputs ==
    {AskInput(b, TRUE, TRUE, "ok", "ok") : b \in Bodies}
    \cup {AskInput("message", FALSE, TRUE, "ok", "ok"),
          AskInput("message", TRUE, FALSE, "ok", "ok")}
    \cup {AskInput("message", TRUE, TRUE, o, "ok") : o \in Providers}
    \cup {AskInput("message", TRUE, TRUE, "ok", g) : g \in Providers}

StillProcessing == "The project repository is still being processed. Please try again later."
NotAvailable == "The project repository data is not available. Please contact the administrator."
NotFound == "I couldn't find relevant information"
Incomplete == "Sorry, the project data is incomplete. Please contact the administrator."
GroqUnavailable == "Sorry, the AI service is not available at the moment."
GroqFailed == "Sorry, I encountered an error while generating a response. Please try again."

\* The message of the requests that carry one.
UserMessage == <<"h", "i">>

\* faiss.IndexFlatIP(dimension) after index.add(embeddings).
IndexFlatIP(rows) == [d |-> Len(rows[1]), rows |-> rows]

RECURSIVE InnerProduct(_, _)
InnerProduct(u, v) ==
    IF u = << >> THEN 0 ELSE u[1] * v[1] + InnerProduct(Tail(u), Tail(v))

\* The positions in left by descending score; positions of equal score by
\* ascending position (faiss leaves their order open).
RECURSIVE Ranked(_, _)
Ranked(scores, left) ==
    IF left = {} THEN << >>
    ELSE LET best == CHOOSE i \in left :
                         \A j \in left :
                             \/ scores[i] > scores[j]
                             \/ scores[i] = scores[j] /\ i <= j
         IN  <<best>> \o Ranked(scores, left \ {best})

\* index.search(query_embedding, k): the labels of the k vectors of largest
\* inner product with the query, best first, counted from 0, and -1 where
\* the index has no vector left.
IndexSearch(index, q, k) ==
    LET n == Len(index.rows)
        ranked == Ranked([i \in 1 .. n |-> InnerProduct(q, index.rows[i])], 1 .. n)
    IN  [i \in 1 .. k |-> IF i <= n THEN ranked[i] - 1 ELSE -1]

\* "if idx < len(chunks): results.append((chunks[idx], float(score)))" over
\* the labels: a label past the chunk list is dropped, and chunks[-1] is the
\* last chunk.
RECURSIVE Matched(_, _)
Matched(labels, cs) ==
    IF labels = << >> THEN << >>
    ELSE LET idx == Head(labels)
         IN  (IF idx >= Len(cs) THEN << >>
              ELSE IF idx >= 0 THEN <<cs[idx + 1]>>
              ELSE <<cs[Len(cs) + idx + 1]>>)
             \o Matched(Tail(labels), cs)

\* ProjectRAGService.search_similar_chunks(query, index, chunks, top_k): the
\* matched chunks, best first.  Without a query, chunks or client it returns
\* [] at once.  The embedding of the query is requested and normalised and
\* the index searched inside the try: a request that raises, and a query
\* vector whose length is not the dimension of the index (an assertion of
\* faiss), end in the except clause, which returns [].
search_similar_chunks(query, index, cs, top_k, provider) ==
    IF query = << >> \/ cs = << >> \/ provider = "no_client" THEN << >>
    ELSE IF provider = "api_error" THEN << >>
    ELSE LET query_embedding == normalize_L2(np_array(<<Embedding(query)>>)).rows[1]
         IN  IF Len(query_embedding) # index.d THEN << >>
             ELSE Matched(IndexSearch(index, query_embedding, Min(top_k, Len(cs))), cs)

\* The line of the prompt for one chat turn.
HistoryLine(msg) ==
    [role |-> IF msg.role = "user" THEN "User" ELSE "Assistant",
     content |-> msg.content]

\* A prompt that takes the first turns of the history.
GroqPrompt_FirstTurns(context_chunks, chat_history) ==
    [context |-> Slice(context_chunks, 0, PromptChunks),
     history |-> LET recent_history == Slice(chat_history, 0, PromptTurns)
                 IN  [i \in 1 .. Len(recent_history) |-> HistoryLine(recent_history[i])]]

\* The parts of the prompt generate_response_with_groq builds from its
\* arguments: the chunks joined into the context and the lines of the
\* recent conversation.
GroqPrompt(context_chunks, chat_history) ==
    [context |-> Slice(context_chunks, 0, PromptChunks),
     history |-> LET recent_history ==
                         Slice(chat_history, -PromptTurns, Len(chat_history))
                 IN  [i \in 1 .. Len(recent_history) |-> HistoryLine(recent_history[i])]]

\* ProjectRAGService.generate_response_with_groq: the text it returns.
generate_response_with_groq(context_chunks, provider) ==
    IF provider = "no_client" THEN GroqUnavailable
    ELSE IF provider = "api_error" THEN GroqFailed
    ELSE "<generated answer>"

\* The JsonResponse of the view (http, status, response) and what the view
\* did to produce it: whether it searched, how many chunks the search
\* matched, whether it called the generator.
Success(text, searched, matches, generated) ==
    [http |-> 200, status |-> "success", response |-> text,
     searched |-> searched, matches |-> matches, generated |-> generated]

Failure(code, text) ==
    [http |-> code, status |-> "error", response |-> text,
     searched |-> FALSE, matches |-> 0, generated |-> FALSE]

\* str() of the ValueError np.array(embeddings_list, dtype=np.float32)
\* raises for rows of different lengths, in the words of numpy 1.24 and
\* later.
InhomogeneousShape(embeddings_list) ==
    "setting an array element with a sequence. The requested array has an "
    \o "inhomogeneous shape after 1 dimensions. The detected shape was ("
    \o ToString(Len(embeddings_list)) \o ",) + inhomogeneous part."

\* dict.get(key, []) of the document read from embeddings_data.
DocumentList(data, key) == IF key \in DOMAIN data THEN data[key] ELSE << >>

\* AnswerFromRow without the "if not similar_chunks" return: the generator
\* is called with whatever the search returned.
AnswerFromRow_AlwaysGenerates(row, in) ==
    LET data == get_embeddings_data(row)
        cs == DocumentList(data, "chunks")
        embeddings_list == DocumentList(data, "embeddings")
    IN  IF row = NoRow THEN Success(NotAvailable, FALSE, 0, FALSE)
        ELSE IF ~row.is_processed THEN Success(StillProcessing, FALSE, 0, FALSE)
        ELSE IF ~in.imports
        THEN Success("The RAG system is currently unavailable due to dependency issues",
                     FALSE, 0, FALSE)
        ELSE IF data = NoDocument
        THEN Success("Sorry, there was an issue accessing the project data. Please try again later.",
                     FALSE, 0, FALSE)
        ELSE IF cs = << >> \/ embeddings_list = << >>
        THEN Success(Incomplete, FALSE, 0, FALSE)
        ELSE IF \E i \in 1 .. Len(embeddings_list) :
                    Len(embeddings_list[i]) # Len(embeddings_list[1])
        THEN Failure(500, InhomogeneousShape(embeddings_list))
        ELSE LET similar == search_similar_chunks(UserMessage, IndexFlatIP(embeddings_list),
                                                  cs, SearchTopK, in.openai)
             IN  Success(generate_response_with_groq(similar, in.groq),
                         TRUE, Len(similar), TRUE)

\* The view from rag_data = project.rag_data to its answer.  The matrix and
\* the index are built outside any inner try: the ValueError of np.array
\* reaches the outer except clause, which answers 500 with its text.
AnswerFromRow(row, in) ==
    LET data == get_embeddings_data(row)
        cs == DocumentList(data, "chunks")
        embeddings_list == DocumentList(data, "embeddings")
    IN  IF row = NoRow THEN Success(NotAvailable, FALSE, 0, FALSE)
        ELSE IF ~row.is_processed THEN Success(StillProcessing, FALSE, 0, FALSE)
        ELSE IF ~in.imports
        THEN Success("The RAG system is currently unavailable due to dependency issues",
                     FALSE, 0, FALSE)
        ELSE IF data = NoDocument
        THEN Success("Sorry, there was an issue accessing the project data. Please try again later.",
                     FALSE, 0, FALSE)
        ELSE IF cs = << >> \/ embeddings_list = << >>
        THEN Success(Incomplete, FALSE, 0, FALSE)
        ELSE IF \E i \in 1 .. Len(embeddings_list) :
                    Len(embeddings_list[i]) # Len(embeddings_list[1])
        THEN Failure(500, InhomogeneousShape(embeddings_list))
        ELSE LET similar == search_similar_chunks(UserMessage, IndexFlatIP(embeddings_list),
                                                  cs, SearchTopK, in.openai)
             IN  IF similar = << >>
                 THEN Success(NotFound, TRUE, 0, FALSE)
                 ELSE Success(generate_response_with_groq(similar, in.groq),
                              TRUE, Len(similar), TRUE)

\* The view up to rag_data = project.rag_data: the answer it gives before it
\* reads the row, NoAnswer when it goes on.  The Http404 of
\* get_object_or_404 is raised inside the try of the view and answered 500
\* by its outer except clause.
NoAnswer == [noanswer |-> TRUE]

AnswerBeforeRow(exists, in) ==
    IF ~exists THEN Failure(500, "No Project matches the given query.")
    ELSE IF in.body = "no_message" THEN Failure(400, "No message provided")
    ELSE IF ~in.rag_available
    THEN Success("I can help you with general questions about the project.", FALSE, 0, FALSE)
    ELSE NoAnswer

\* One request: what it carried (a message), RAG_AVAILABLE and whether the
\* local imports pass, whether it found the project, the row it read (NoRow
\* when it read none) and the answer.
Asked(in, exists, row, out) ==
    [op |-> "project_chatbot_ask", message |-> in.body = "message",
     rag_available |-> in.rag_available, imports |-> in.imports,
     project |-> exists, read |-> row, out |-> out]

\* POST to project_chatbot_ask, up to its reading of the row:
\* get_object_or_404(Project, pk=pk), the body and RAG_AVAILABLE.  A request
\* answered here takes no slot.
project_chatbot_ask(r) ==
    /\ \E in \in AskInputs :
           IF AnswerBeforeRow(~deleted, in) = NoAnswer
           THEN Enter(r, "project_chatbot_ask", FALSE, "ask_row")
           ELSE /\ r = 1
                /\ returned' = Asked(in, ~deleted, NoRow, AnswerBeforeRow(~deleted, in))
                /\ Invoked
                /\ UNCHANGED <<pc, kind, force, retries>>
    /\ UNCHANGED <<db, loc, chunks, calls, exc, deleted, scan, last_id>>

\* rag_data = project.rag_data, a SELECT of its own, and the rest of the
\* view, which reads the tables no more: the local imports and the providers
\* are those of the moment.  The row is gone with a project deleted since
\* the view read the project.
project_chatbot_ask_rag_data(r) ==
    /\ pc[r] = "ask_row"
    /\ \E in \in AskInputs :
           /\ AnswerBeforeRow(TRUE, in) = NoAnswer
           /\ returned' = Asked(in, TRUE, db, AnswerFromRow(db, in))
    /\ Release(r, "done")
    /\ UNCHANGED <<db, deleted, scan, invoked, last_id>>

(***************************************************************************)
(* The system.                                                             *)
(***************************************************************************)
\* The behaviours followed are those of up to MaxCalls invocations of the
\* entry points (the triggers, commands, sweeps and requests).  What was
\* invoked goes on without bound: a worker takes a queued task, and a run, a
\* request or a sweep makes its next step.
MayInvoke == invoked < MaxCalls

Next ==
    \/ MayInvoke /\ \E r \in RunIds, f \in BOOLEAN : Delay(r, f)
    \/ MayInvoke /\ \E r \in RunIds : batch_process_rag_projects(r)
    \/ MayInvoke /\ \E r \in RunIds : save_model(r)
    \/ MayInvoke /\ \E r \in RunIds : save_model_unqueued(r)
    \/ MayInvoke /\ \E r \in RunIds, f \in BOOLEAN : process_project(r, f)
    \/ MayInvoke /\ \E r \in RunIds, byId \in BOOLEAN : process_project_async(r, byId)
    \/ MayInvoke /\ \E r \in RunIds : project_chatbot(r)
    \/ MayInvoke /\ \E r \in RunIds : cleanup_failed_rag_tasks(r)
    \/ MayInvoke /\ \E r \in RunIds : project_chatbot_ask(r)
    \/ MayInvoke /\ delete_project
    \/ MayInvoke /\ ProjectRAGAdmin_change
    \/ MayInvoke /\ ProjectRAGAdmin_add
    \/ MayInvoke /\ ProjectRAGAdmin_delete
    \/ \E r \in RunIds : TaskStart(r)
    \/ \E r \in RunIds : project_chatbot_rag_data(r)
    \/ \E r \in RunIds : project_chatbot_create(r)
    \/ \E r \in RunIds : project_chatbot_ask_rag_data(r)
    \/ \E r \in RunIds : handle(r)
    \/ \E r \in RunIds : Begin(r)
    \/ \E r \in RunIds : OpeningSave(r)
    \/ \E r \in RunIds : Fetch(r)
    \/ \E r \in RunIds : Chunk(r)
    \/ \E r \in RunIds : Embed(r)
    \/ \E r \in RunIds : FinalSave(r)
    \/ \E r \in RunIds : Except(r)
    \/ \E r \in RunIds : ExceptSave(r)
    \/ \E r \in RunIds : super_save_model(r)
    \/ \E r \in RunIds : save_model_get_or_create(r)
    \/ \E r \in RunIds : rag_data_save(r)
    \/ \E r \in RunIds : rag_save(r)

Spec == Init /\ [][Next]_vars

(***************************************************************************)
(* The properties.                                                         *)
(***************************************************************************)
Statuses == {"pending", "fetching", "chunking", "embedding", "completed", "failed"}

\* The runs that are past their opening save and have not ended.
Active == {r \in RunIds : pc[r] \in {"fetch", "chunk", "embed"}}

\* The last step ended an attempt of an ingestion path.
AttemptEnded == ~deleted /\ returned.op \in Kinds /\ returned.result # "skipped"

\* The changes of processing_status the state machine allows.
AllowedChanges ==
    {<<"pending", "fetching">>, <<"fetching", "chunking">>,
     <<"chunking", "embedding">>, <<"embedding", "completed">>,
     <<"failed", "pending">>, <<"completed", "pending">>}
    \cup {<<s, "failed">> : s \in Statuses}

\* C1: every change of the row's processing_status is pending->fetching,
\* fetching->chunking, chunking->embedding, embedding->completed, any->failed
\* or failed/completed->pending; in particular a failed row never goes
\* directly to fetching.
C1_StatusChangesAreLinear ==
    [][(db # NoRow /\ db' # NoRow
        /\ db'.processing_status # db.processing_status)
       => <<db.processing_status, db'.processing_status>> \in AllowedChanges]_vars

\* The services would have let the attempt succeed: the repository service
\* answers with text that yields at least one chunk and, if asked, the
\* embedding provider answers every call.
ServicesAnswered(e) ==
    /\ ~e.fetch.none
    /\ chunk_text(e.fetch.text, DefaultChunkSize, DefaultOverlap) # << >>
    /\ e.embed \in {"ok", "unasked"}

\* C2: an attempt of the task or of process_rag_async for which the fetch
\* returns non-empty text, chunking yields a chunk and every embedding call
\* succeeds ends with the row completed, at 100, processed and holding the
\* embeddings document.
C2_SuccessfulRunCompletes ==
    (/\ AttemptEnded
     /\ returned.op \in {"task", "async_cmd"}
     /\ ServicesAnswered(returned))
    => /\ returned.result = "success"
       /\ db.processing_status = "completed"
       /\ db.progress_percentage = 100
       /\ db.is_processed
       /\ db.embeddings_data # EmptyString

\* C3: an attempt of any of the three paths in which a step fails or raises
\* ends with the row failed and carrying a non-empty processing_error.
C3_FailedRunIsRecorded ==
    (AttemptEnded /\ returned.result \in {"retry", "raised", "failed"})
    => /\ db.processing_status = "failed"
       /\ db.processing_error # None
       /\ db.processing_error # ""

\* The last step answered an ask that carried a message and, RAG_AVAILABLE
\* being set, went on to look at the row.
AskedOfRow ==
    /\ returned.op = "project_chatbot_ask"
    /\ returned.message
    /\ returned.rag_available
    /\ db # NoRow

\* C4: for a row whose processing_status is not completed the ask returns the
\* 'still being processed' message and neither searches nor generates.
C4_AskWaitsForCompleted ==
    (AskedOfRow /\ db.processing_status # "completed")
    => /\ returned.out.response = StillProcessing
       /\ ~returned.out.searched
       /\ ~returned.out.generated

\* The row of a project whose ingestion has completed.
Completed(row) ==
    row # NoRow /\ (row.is_processed \/ row.processing_status = "completed")

\* Run r gets past the opening of its path in this step: it makes its
\* opening save and stands before its fetch.
Starts(r) == pc[r] = "start" /\ pc'[r] = "fetch"

\* C5: invoked without force on a completed row, no entry point starts an
\* attempt (so none fetches or embeds), and the invocation that reports
\* 'already processed' leaves every field of the row as it was.
C5_UnforcedRunOnCompletedIsNoOp ==
    [][/\ \A r \in RunIds : ~(Starts(r) /\ ~force[r] /\ Completed(loc[r]))
       /\ (Completed(db) /\ returned'.op \in Kinds /\ returned'.result = "skipped")
          => db' = db]_vars

\* C6: when a forced run starts on a row it found failed or completed, the
\* row it leaves before its fetch is pending, without error, without
\* repository content, without embeddings and at progress 0.
C6_ForceResetsTheRow ==
    [][\A r \in RunIds :
         (/\ Starts(r) /\ force[r]
          /\ loc[r].processing_status \in {"failed", "completed"})
         => /\ db'.processing_status = "pending"
            /\ db'.processing_error = None
            /\ db'.repo_content = << >>
            /\ db'.embeddings_data = EmptyString
            /\ db'.progress_percentage = 0]_vars

(***************************************************************************)
(* project_chatbot_ask on what the row may hold.  embeddings_data is a     *)
(* TextField: the table takes any text in it, and the view builds its      *)
(* matrix and its index from whatever document it reads there.  The rows   *)
(* are those below: processed or not, without a document or with the JSON  *)
(* text of one of these: the documents the runs store, lists that are      *)
(* empty or absent, rows of different lengths, more and fewer rows than    *)
(* chunks, and rows of another length than the query's vector.             *)
(***************************************************************************)
StoredDocuments ==
    LET one == <<"a">>
        two == <<"a", "b">>
        row(t) == create_embeddings(<<t>>, "ok").rows[1]
        Document(cs, rows) ==
            [chunks |-> cs, embeddings |-> rows,
             embedding_dimension |-> EmbedDim, num_chunks |-> Len(cs)]
    IN  {EmbeddingsDocument(<<two>>, create_embeddings(<<two>>, "ok")),
         EmbeddingsDocument(<<one, two>>, create_embeddings(<<one, two>>, "ok")),
         Document(<< >>, <<row(one)>>),
         Document(<<one>>, << >>),
         [chunks |-> <<one>>],
         Document(<<one, two>>, <<row(one), <<Scale>>>>),
         Document(<<one>>, <<row(one), row(two)>>),
         Document(<<two>>, <<row(two), row(one)>>),
         Document(<<one, two>>, <<row(one)>>),
         Document(<<one>>, <<[j \in 1 .. EmbedDim + 1 |-> Scale \div 2]>>)}

StoredRows ==
    {[DefaultRow EXCEPT !.is_processed = p, !.embeddings_data = e] :
        p \in BOOLEAN,
        e \in {EmptyString} \cup {json_dumps(d) : d \in StoredDocuments}}

AskInit ==
    /\ db \in StoredRows
    /\ deleted = FALSE
    /\ scan = NoScan
    /\ invoked = 0
    /\ last_id = 1
    /\ pc = [r \in RunIds |-> "idle"]
    /\ kind = [r \in RunIds |-> "none"]
    /\ force = [r \in RunIds |-> FALSE]
    /\ retries = [r \in RunIds |-> 0]
    /\ loc = [r \in RunIds |-> NoRow]
    /\ chunks = [r \in RunIds |-> << >>]
    /\ calls = [r \in RunIds |-> NoCalls]
    /\ exc = [r \in RunIds |-> NoExc]
    /\ returned = Nothing

\* The requests, and the deletion of the project and of the row under them.
AskNext ==
    \/ \E r \in RunIds : project_chatbot_ask(r)
    \/ \E r \in RunIds : project_chatbot_ask_rag_data(r)
    \/ delete_project
    \/ ProjectRAGAdmin_delete

AskSpec == AskInit /\ [][AskNext]_vars

\* The last step answered an ask that carried a message for a project it
\* found.
AskedWithMessage ==
    /\ returned.op = "project_chatbot_ask"
    /\ returned.message
    /\ returned.project

\* C7: an ask that carries a message for an existing project is answered
\* with status success and a response string, whatever the row and its
\* document hold and whichever provider fails.
C7_AskAlwaysSucceeds ==
    AskedWithMessage
    => /\ returned.out.http = 200
       /\ returned.out.status = "success"
       /\ returned.out.response # ""

\* The document of the row the ask read.
ReadDocument == get_embeddings_data(returned.read)

\* The last step answered an ask that got to the document of a processed
\* row: the local imports passed and the text was that of a document.
Retrieved ==
    /\ AskedWithMessage
    /\ returned.imports
    /\ returned.read # NoRow
    /\ returned.read.is_processed
    /\ ReadDocument # NoDocument
    /\ returned.out.matches = 0
    /\ returned.out.response = NotFound
    /\ Len(ReadDocument.embeddings[1]) # EmbedDim

\* The progress each processing_status stands for.
Checkpoints == [fetching |-> 10, chunking |-> 30, embedding |-> 50, completed |-> 100]

\* C9: progress_percentage stays in 0..100 and is the checkpoint of the
\* row's status, and while a run is between its start and its end the stored
\* progress_percentage never decreases (the reset of cleanup_failed_rag_tasks
\* apart).
C9_ProgressFollowsCheckpoints ==
    [][/\ db' # NoRow
          => /\ db'.progress_percentage \in 0 .. 100
             /\ db'.processing_status \in DOMAIN Checkpoints
                => db'.progress_percentage = Checkpoints[db'.processing_status]
       /\ (/\ Active # {}
           /\ db # NoRow
           /\ db' # NoRow
           /\ returned'.op # "cleanup_failed_rag_tasks")
          => db'.progress_percentage >= db.progress_percentage]_vars

\* C10: while a run is in flight, the row being fetching, chunking or
\* embedding, a task invoked without force does not start an attempt of its
\* own (it makes no call) and leaves the row as it is.
C10_SecondTriggerIsRedundant ==
    [][\A r \in RunIds :
         (/\ kind[r] = "task" /\ pc[r] = "project" /\ pc'[r] # "project" /\ ~force[r]
          /\ Active # {}
          /\ db # NoRow
          /\ db.processing_status \in {"fetching", "chunking", "embedding"})
         => (pc'[r] = "idle" /\ db' = db)]_vars

\* The processing_status that stands for the step a run is at.
StepStatus == [fetch |-> "fetching", chunk |-> "chunking", embed |-> "embedding"]

\* C11: while one run is at a step, the row shows the status of that step:
\* the run saved the state it entered before it started the step.
C11_StatusReadShowsStep ==
    \A r \in RunIds :
        (~deleted /\ Active = {r})
        => (db # NoRow /\ db.processing_status = StepStatus[pc[r]])

\* The positions of a run between its get_or_create and its end.
RunSteps == {"project", "start", "fetch", "chunk", "embed", "final", "except",
             "except_save"}

\* C12: a failed attempt starts no further attempt itself: when an attempt
\* ends, nothing of its run stays queued.
C12_NoRetryInProcess ==
    [][\A r \in RunIds :
         (pc[r] \in RunSteps /\ pc'[r] \notin RunSteps) => pc'[r] = "idle"]_vars

(***************************************************************************)
(* The project left to the scheduled sweeps: it is added through the admin *)
(* (a request that arrives while it has no row yet; one that finds the row *)
(* another has made meanwhile saves it and queues its task too), and from  *)
(* then on only batch_process_rag_projects and cleanup_failed_rag_tasks    *)
(* act on it, with the tasks they queue.  The scheduler runs every sweep   *)
(* again and again, the workers take every queued task and every request   *)
(* is served to its end, hence the fairness.                               *)
(***************************************************************************)
SweepNext ==
    \/ \E r \in RunIds : db = NoRow /\ save_model(r)
    \/ \E r \in RunIds : super_save_model(r)
    \/ \E r \in RunIds : save_model_get_or_create(r)
    \/ \E r \in RunIds : rag_data_save(r)
    \/ \E r \in RunIds : batch_process_rag_projects(r)
    \/ \E r \in RunIds : cleanup_failed_rag_tasks(r)
    \/ \E r \in RunIds : rag_save(r)
    \/ \E r \in RunIds : TaskStart(r)
    \/ \E r \in RunIds : Begin(r)
    \/ \E r \in RunIds : OpeningSave(r)
    \/ \E r \in RunIds : Fetch(r)
    \/ \E r \in RunIds : Except(r)

SweepSpec ==
    /\ Init
    /\ [][SweepNext]_vars
    /\ WF_vars(\E r \in RunIds : super_save_model(r))
    /\ WF_vars(\E r \in RunIds : save_model_get_or_create(r))
    /\ WF_vars(\E r \in RunIds : rag_data_save(r))
    /\ WF_vars(\E r \in RunIds : batch_process_rag_projects(r))
    /\ WF_vars(\E r \in RunIds : cleanup_failed_rag_tasks(r))
    /\ WF_vars(\E r \in RunIds : rag_save(r))
    /\ WF_vars(\E r \in RunIds : TaskStart(r))
    /\ WF_vars(\E r \in RunIds : Begin(r))
    /\ WF_vars(\E r \in RunIds : OpeningSave(r))
    /\ WF_vars(\E r \in RunIds : Fetch(r))
    /\ WF_vars(\E r \in RunIds : Except(r))

\* An attempt starts in this step.
AttemptStarts == \E r \in RunIds : Starts(r)

\* C13: for a project whose ingestion fails on every attempt the sweeps start
\* only a bounded number of attempts: from some point on no attempt starts.
C13_SweepsStopRequeueing == <>[][~AttemptStarts]_vars

\* The row holds the document of one successful run: the chunks of one
\* fetched text with the embeddings created for exactly those chunks.
HoldsOneRunsDocument(row) ==
    /\ row # NoRow
    /\ get_embeddings_data(row) # NoDocument
    /\ \E reply \in FetchReplies :
         LET cs == chunk_text(reply.text, DefaultChunkSize, DefaultOverlap)
         IN  /\ ~reply.none
             /\ cs # << >>
             /\ get_embeddings_data(row) = EmbeddingsDocument(cs, create_embeddings(cs, "ok"))

\* C14: an ask writes no field of the row, and an ask that searches does so
\* on the chunk list and the matrix of one row it read, which one successful
\* run stored together, whatever runs are in flight and whatever they do
\* between the steps of the ask.
C14_AskReadsOneRunsDocument ==
    [][returned'.op = "project_chatbot_ask"
       => /\ db' = db
          /\ returned'.out.searched
             => /\ HoldsOneRunsDocument(returned'.read)
                /\ returned'.out.matches
                   <= Len(get_embeddings_data(returned'.read).chunks)]_vars

\* An ask searched the stored document while a forced run of the same project
\* was in flight.
C14_Witness ==
    /\ returned.op = "project_chatbot_ask"
    /\ returned.out.searched
    /\ returned.out.matches > 0
    /\ \E r \in Active : force[r]

\* C15: an attempt that ends after the project was deleted under it has
\* tested that the project exists and made no save of the row, whichever
\* path it runs.
C15_DeletedProjectIsNotSaved ==
    (/\ deleted
     /\ returned.op \in Kinds
     /\ returned.at # "start")
    => returned.save = "skipped"

(***************************************************************************)
(* The embedding step on several chunks.  A repository of up to chunk_size *)
(* characters gives one chunk; here the commands run on a repository that  *)
(* is longer, again and again, forced or not and side by side, under every *)
(* behaviour of the provider.  The task and process_rag_async never get to *)
(* their embedding step (their fetch raises): the documents are those of   *)
(* process_project_rag, and process_rag_async is the other writer of the   *)
(* row.  The two embedders are also called on their own, on lists of up to *)
(* MaxChunks chunks, while no run is in flight.                            *)
(***************************************************************************)
\* The invocations followed: a run and a forced run, or a run and a call of
\* an embedder.
MaxEmbedCalls == 2

LongRepository == [none |-> FALSE, text |-> [i \in 1 .. DefaultChunkSize + 1 |-> "a"]]

FetchRepository(r) ==
    /\ pc[r] = "fetch"
    /\ \E reply \in {LongRepository, FetchText, FetchError} : FetchStep(r, reply)
    /\ UNCHANGED <<deleted, scan, invoked, last_id>>

EmbedWith(r) ==
    /\ pc[r] = "embed"
    /\ \E provider \in EmbedReplies : EmbedStep(r, DefaultBatchSize, provider)
    /\ UNCHANGED <<deleted, scan, invoked, last_id>>

ChunkTexts == {<<"a">>, <<"a", "b">>}
ChunkLists == UNION {[1 .. n -> ChunkTexts] : n \in 1 .. MaxChunks}

\* What a call of an embedder on its own reports: its arguments, the
\* behaviour of the provider, the requests it made and what it returned.
Embedded(op, cs, batch_size, provider, m) ==
    [op |-> op, chunks |-> cs, batch_size |-> batch_size, embed |-> provider,
     calls |-> [fetch |-> 0,
                embed |-> EmbedRequests(IF op = "create_embeddings" THEN "sync_cmd"
                                        ELSE "async_cmd", cs, batch_size, provider)],
     value |-> m]

\* rag_service.create_embeddings(chunks)
create_embeddings_call ==
    /\ \A r \in RunIds : pc[r] = "idle"
    /\ \E cs \in ChunkLists, provider \in EmbedReplies :
           returned' = Embedded("create_embeddings", cs, 1, provider,
                                create_embeddings(cs, provider))
    /\ Invoked
    /\ UNCHANGED <<db, pc, kind, force, retries, loc, chunks, calls, exc, deleted, scan, last_id>>

\* self.create_embeddings_with_delays(rag_service, chunks, batch_size, delay)
create_embeddings_with_delays_call ==
    /\ \A r \in RunIds : pc[r] = "idle"
    /\ \E cs \in ChunkLists, batch_size \in {1, 2, DefaultBatchSize}, provider \in EmbedReplies :
           returned' = Embedded("create_embeddings_with_delays", cs, batch_size, provider,
                                create_embeddings_with_delays(cs, batch_size, provider))
    /\ Invoked
    /\ UNCHANGED <<db, pc, kind, force, retries, loc, chunks, calls, exc, deleted, scan, last_id>>

EmbedNext ==
    \/ invoked < MaxEmbedCalls /\ \E r \in RunIds, f \in BOOLEAN : process_project(r, f)
    \/ invoked < MaxEmbedCalls /\ \E r \in RunIds : process_project_async(r, TRUE)
    \/ \E r \in RunIds : Begin(r)
    \/ \E r \in RunIds : OpeningSave(r)
    \/ \E r \in RunIds : FetchRepository(r)
    \/ \E r \in RunIds : Chunk(r)
    \/ \E r \in RunIds : EmbedWith(r)
    \/ \E r \in RunIds : FinalSave(r)
    \/ \E r \in RunIds : Except(r)
    \/ \E r \in RunIds : ExceptSave(r)
    \/ invoked < MaxEmbedCalls /\ create_embeddings_call
    \/ invoked < MaxEmbedCalls /\ create_embeddings_with_delays_call

EmbedSpec == Init /\ [][EmbedNext]_vars

\* A request to the provider raised during the attempt or the call.
CallFailed(e) == FailsAt(e.embed) # 0 /\ e.calls.embed = FailsAt(e.embed)

\* The document of all the chunks with the vector of each.
CompleteDocument(cs) ==
    EmbeddingsDocument(cs, normalize_L2(
        [isnone |-> FALSE,
         rows |-> float32_rows([i \in 1 .. Len(cs) |-> Embedding(cs[i])])]))

\* The last step was a call of an embedder on its own.
EmbedderReturned ==
    returned.op \in {"create_embeddings", "create_embeddings_with_delays"}

\* C16: a run in which a request of the embedding step failed does not end
\* in success; a run that ends in success stores the document of all its
\* chunks with one vector each; a step that ends a run otherwise leaves the
\* row as it was or with the embeddings_data the run had read there; no
\* step leaves a part of a document in the row; and an embedder returns
\* neither matrix nor index when one of its requests failed, and else the
\* matrix of all the chunks.
C16_NoPartialEmbeddings ==
    [][/\ \A r \in RunIds :
            (pc[r] \in RunSteps /\ pc'[r] # pc[r] /\ returned'.op \in Kinds)
            => IF returned'.result = "success"
               THEN /\ ~CallFailed(returned')
                    /\ get_embeddings_data(db') = CompleteDocument(chunks[r])
               ELSE \/ db' = db
                    \/ db'.embeddings_data = loc[r].embeddings_data
       /\ (db' # NoRow /\ get_embeddings_data(db') # NoDocument)
          => get_embeddings_data(db') = CompleteDocument(get_embeddings_data(db').chunks)
       /\ EmbedderReturned'
          => /\ CallFailed(returned') => returned'.value = NoEmbeddings
             /\ ~returned'.value.isnone
                => EmbeddingsDocument(returned'.chunks, returned'.value)
                   = CompleteDocument(returned'.chunks)]_vars

\* A run of several chunks whose second request failed, after a vector was
\* answered, on a row that holds the document of an earlier run.
C16_Witness ==
    /\ returned.op = "sync_cmd"
    /\ CallFailed(returned)
    /\ returned.calls.embed >= 2
    /\ db # NoRow
    /\ get_embeddings_data(db) # NoDocument
    /\ get_embeddings_data(db).num_chunks >= 2

\* num_chunks = len(chunks) = len(embeddings), every vector of length
\* embedding_dimension.
Consistent(d) ==
    /\ d.num_chunks = Len(d.chunks)
    /\ Len(d.chunks) = Len(d.embeddings)
    /\ \A i \in 1 .. Len(d.embeddings) : Len(d.embeddings[i]) = d.embedding_dimension

\* C17: a row whose embeddings_data is not empty holds a document with
\* num_chunks = len(chunks) = len(embeddings) whose vectors all have length
\* embedding_dimension, and so is the document made of what either embedder
\* returns, the one that asks for every chunk and the one that asks in
\* batches.
C17_DocumentIsConsistent ==
    /\ (db # NoRow /\ get_embeddings_data(db) # NoDocument)
       => Consistent(get_embeddings_data(db))
    /\ (EmbedderReturned /\ ~returned.value.isnone)
       => Consistent(EmbeddingsDocument(returned.chunks, returned.value))

\* The row holds a document of several chunks and the batched embedder has
\* returned the matrix of several chunks after more than one batch.
C17_Witness ==
    /\ db # NoRow
    /\ get_embeddings_data(db) # NoDocument
    /\ get_embeddings_data(db).num_chunks >= 2
    /\ returned.op = "create_embeddings_with_delays"
    /\ returned.calls.embed >= 2
    /\ Len(returned.value.rows) >= 2

\* C18: an attempt whose fetch returned the empty string runs the chunker,
\* fails at the chunking step with 'No content chunks generated' on the row,
\* and makes no call to the embedder.
C18_EmptySnapshotFailsAtChunking ==
    (/\ AttemptEnded
     /\ FetchRequests(returned.op, returned.fetch) = 1
     /\ returned.fetch = FetchEmpty)
    => /\ returned.at = "chunk"
       /\ db.processing_error = "No content chunks generated"
       /\ returned.calls.embed = 0

(***************************************************************************)
(* chunk_text on its own: a call with drawn arguments, whose while loop is  *)
(* followed one iteration at a time.                                       *)
(***************************************************************************)
Alphabet == {"a", ".", " "}

\* The arguments of the call are drawn: chunk_size and overlap, then the
\* text one character at a time.
draw_arguments(max) ==
    /\ scan = NoScan
    /\ \E chunk_size \in -1 .. max, overlap \in -1 .. max + 1 :
           scan' = [at |-> "drawn", text |-> << >>,
                    chunk_size |-> chunk_size, overlap |-> overlap]
    /\ UNCHANGED <<db, pc, kind, force, retries, loc, chunks, calls, exc, returned, deleted, invoked, last_id>>

draw_character(max) ==
    /\ scan.at = "drawn"
    /\ Len(scan.text) < max
    /\ \E c \in Alphabet : scan' = [scan EXCEPT !.text = Append(@, c)]
    /\ UNCHANGED <<db, pc, kind, force, retries, loc, chunks, calls, exc, returned, deleted, invoked, last_id>>

\* chunk_text(text, chunk_size, overlap) is called.
chunk_text_call ==
    /\ scan.at = "drawn"
    /\ scan' = ScanEntry(scan.text, scan.chunk_size, scan.overlap)
    /\ UNCHANGED <<db, pc, kind, force, retries, loc, chunks, calls, exc, returned, deleted, invoked, last_id>>

\* One iteration of "while start < len(text)", to the break or the next
\* test of the loop condition.  An iteration begins at a start it has not
\* begun at before at most len(text) times; the guard on spans holds the
\* record to that length.
chunk_text_iteration ==
    /\ scan.at = "loop"
    /\ Len(scan.spans) < Len(scan.text)
    /\ LET end == ChunkEnd(scan.text, scan.chunk_size, scan.start)
           chunk == strip(Slice(scan.text, scan.start, end))
           next == NextStart(scan.text, scan.chunk_size, scan.overlap, scan.start)
       IN  scan' = [scan EXCEPT
                       !.chunks = IF chunk # << >> THEN Append(@, chunk) ELSE @,
                       !.spans = Append(@, [start |-> scan.start, end |-> end,
                                            kept |-> chunk # << >>]),
                       !.start = next,
                       !.at = IF next >= Len(scan.text) THEN "returned" ELSE "loop"]
    /\ UNCHANGED <<db, pc, kind, force, retries, loc, chunks, calls, exc, returned, deleted, invoked, last_id>>

ChunkNext ==
    \/ draw_arguments(MaxSize)
    \/ draw_character(MaxLen)
    \/ chunk_text_call
    \/ chunk_text_iteration

ChunkSpec == Init /\ [][ChunkNext]_vars

\* The loop runs without interruption: an iteration that can be made is made.
ChunkFairNext ==
    \/ draw_arguments(MaxFairSize)
    \/ draw_character(MaxFairLen)
    \/ chunk_text_call
    \/ chunk_text_iteration

ChunkFairSpec == Init /\ [][ChunkFairNext]_vars /\ WF_vars(chunk_text_iteration)

\* The starts of the iterations made, followed by the start the loop stands at.
ScanStarts == [i \in 1 .. Len(scan.spans) + 1 |->
              IF i <= Len(scan.spans) THEN scan.spans[i].start ELSE scan.start]

\* C19: every call of chunk_text returns, whatever the text, chunk_size and
\* overlap; start was greater at each iteration than at the one before, and
\* the loop ended with start >= len(text).
C19_ChunkTextTerminates ==
    (scan.at = "loop")
    ~> (/\ scan.at = "returned"
        /\ \A i \in 1 .. Len(scan.spans) : ScanStarts[i] < ScanStarts[i + 1]
        /\ scan.start >= Len(scan.text)
        /\ scan.chunks = chunk_text(scan.text, scan.chunk_size, scan.overlap))

\* A call with overlap >= chunk_size that returned after several iterations.
C19_Witness ==
    /\ scan.at = "returned"
    /\ scan.chunk_size >= 1
    /\ scan.overlap >= scan.chunk_size
    /\ Len(scan.spans) >= 3

\* C20: for a non-empty text, chunk_size >= 1 and overlap >= 0, every
\* position of the text that holds a non-whitespace character lies in the
\* [start, end) of an iteration whose chunk was returned.
C20_ChunksCoverText ==
    (/\ scan.at = "returned"
     /\ scan.text # << >>
     /\ scan.chunk_size >= 1
     /\ scan.overlap >= 0)
    => \A p \in 0 .. Len(scan.text) - 1 :
           ~IsSpace(scan.text[p + 1])
           => \E i \in 1 .. Len(scan.spans) :
                  /\ scan.spans[i].kept
                  /\ scan.spans[i].start <= p
                  /\ p < scan.spans[i].end

\* A call that broke a chunk at a word boundary and dropped a chunk of
\* whitespace alone.
C20_Witness ==
    /\ scan.at = "returned"
    /\ scan.chunk_size >= 1
    /\ scan.overlap >= 0
    /\ \E i \in 1 .. Len(scan.spans) : ~scan.spans[i].kept
    /\ \E i \in 1 .. Len(scan.spans) :
           /\ scan.spans[i].end < scan.spans[i].start + scan.chunk_size
           /\ scan.spans[i].end < Len(scan.text)

\* C21: for chunk_size >= 1 and overlap >= 0, every chunk in the list is
\* non-empty, begins and ends with a non-whitespace character and is at most
\* chunk_size long; the list returned is that of chunk_text, and it is empty
\* for the empty text.
C21_ChunksAreTrimmedAndBounded ==
    (/\ scan.at \in {"loop", "returned"}
     /\ scan.chunk_size >= 1
     /\ scan.overlap >= 0)
    => /\ \A i \in 1 .. Len(scan.chunks) :
              LET chunk == scan.chunks[i]
              IN  /\ chunk # << >>
                  /\ ~IsSpace(chunk[1])
                  /\ ~IsSpace(chunk[Len(chunk)])
                  /\ Len(chunk) <= scan.chunk_size
       /\ scan.at = "returned"
          => /\ scan.chunks = chunk_text(scan.text, scan.chunk_size, scan.overlap)
             /\ scan.text = << >> => scan.chunks = << >>

\* A call that returned a chunk as long as chunk_size and a chunk whose
\* span began and ended with whitespace.
C21_Witness ==
    /\ scan.at = "returned"
    /\ scan.chunk_size >= 2
    /\ scan.overlap >= 0
    /\ \E i \in 1 .. Len(scan.chunks) : Len(scan.chunks[i]) = scan.chunk_size
    /\ \E i \in 1 .. Len(scan.spans) :
           /\ scan.spans[i].kept
           /\ scan.spans[i].end <= Len(scan.text)
           /\ IsSpace(scan.text[scan.spans[i].start + 1])
           /\ IsSpace(scan.text[scan.spans[i].end])

(***************************************************************************)
(* chunk_text with its default chunk_size and overlap on texts of 2500     *)
(* characters: letters with a '.' or a ' ' at every p-th position, or      *)
(* letters alone.                                                          *)
(***************************************************************************)
LongLen == 2500
LongMarks == {"a", ".", " "}
LongPeriods == {100 * k : k \in 1 .. MaxPeriods}
LongText(c, p) == [i \in 1 .. LongLen |-> IF i % p = 0 THEN c ELSE "a"]

\* chunk_text(text) is called with such a text.
chunk_text_long ==
    /\ scan = NoScan
    /\ \E c \in LongMarks, p \in LongPeriods :
           scan' = ScanEntry(LongText(c, p), DefaultChunkSize, DefaultOverlap)
    /\ UNCHANGED <<db, pc, kind, force, retries, loc, chunks, calls, exc, returned, deleted, invoked, last_id>>

LongNext == chunk_text_long \/ chunk_text_iteration

LongSpec == Init /\ [][LongNext]_vars

\* C22: chunk_text on a text of 2500 characters with chunk_size 1000 and
\* overlap 200 returns exactly 3 chunks, none empty, each trimmed, the first
\* from offset 0 of the text.
C22_LongTextGivesThreeChunks ==
    (/\ scan.at = "returned"
     /\ Len(scan.text) = LongLen
     /\ scan.chunk_size = DefaultChunkSize
     /\ scan.overlap = DefaultOverlap)
    => /\ Len(scan.chunks) = 3
       /\ \A i \in 1 .. Len(scan.chunks) :
              /\ scan.chunks[i] # << >>
              /\ strip(scan.chunks[i]) = scan.chunks[i]
       /\ scan.spans[1].start = 0

\* The highest index in [lo, hi) whose character satisfies the test given as
\* a set of characters, or -1.
LastIn(text, set, lo, hi) ==
    LET hits == {j \in lo .. hi - 1 : text[j + 1] \in set}
    IN  IF hits = {} THEN -1 ELSE CHOOSE j \in hits : \A k \in hits : k <= j

\* The cut the rule of C23 gives for the window that begins at start.
MidpointCut(text, chunk_size, start) ==
    LET mid == start + (chunk_size \div 2)
        dot == LastIn(text, {"."}, start, start + chunk_size)
        space == LastIn(text, Whitespace, start, start + chunk_size)
    IN  IF dot >= mid THEN dot + 1
        ELSE IF space >= mid THEN space
        ELSE start + chunk_size

\* C23: every window whose start + chunk_size falls strictly inside the text
\* is cut after its last '.' when that '.' is at or after the midpoint
\* start + chunk_size div 2, else at its last whitespace character at or
\* after the midpoint, else at start + chunk_size.
C23_CutsAtOrAfterMidpoint ==
    (scan.at \in {"loop", "returned"} /\ scan.chunk_size >= 1)
    => \A i \in 1 .. Len(scan.spans) :
           scan.spans[i].start + scan.chunk_size < Len(scan.text)
           => scan.spans[i].end
                  = MidpointCut(scan.text, scan.chunk_size, scan.spans[i].start)

(***************************************************************************)
(* generate_response_with_groq on its own: the retrieved chunks, the chat  *)
(* history and the behaviour of the generation client are drawn; the step  *)
(* reports the prompt sent, if a request was made, and the text returned.  *)
(***************************************************************************)
ContextLists == UNION {[1 .. n -> ChunkTexts] : n \in 0 .. MaxContext}
Turns == [role : {"user", "assistant", "system"}, content : {<<"q">>}]
Histories == UNION {[1 .. m -> Turns] : m \in 0 .. MaxTurns}

NoPrompt == [context |-> << >>, history |-> << >>]

generate ==
    /\ returned = Nothing
    /\ \E context_chunks \in ContextLists, chat_history \in Histories, provider \in Providers :
           returned' = [op |-> "generate_response_with_groq",
                        context_chunks |-> context_chunks,
                        chat_history |-> chat_history,
                        groq |-> provider,
                        requested |-> provider # "no_client",
                        prompt |-> IF provider # "no_client"
                                   THEN GroqPrompt(context_chunks, chat_history)
                                   ELSE NoPrompt,
                        out |-> generate_response_with_groq(context_chunks, provider)]
    /\ UNCHANGED <<db, pc, kind, force, retries, loc, chunks, calls, exc, deleted, scan, invoked, last_id>>

PromptNext == generate

PromptSpec == Init /\ [][PromptNext]_vars

\* C24: the prompt holds the first min(3, n) of the n chunks in their order
\* and the last min(4, m) of the m turns in their order, a turn labelled
\* User when its role is 'user' and Assistant otherwise; without a client
\* no request is made and the fixed text for that is returned, and when the
\* request raises the fixed text for a failure is returned.
C24_PromptIsBounded ==
    returned.op = "generate_response_with_groq"
    => LET n == Len(returned.context_chunks)
           m == Len(returned.chat_history)
           k == Min(4, m)
           prompt == returned.prompt
       IN  /\ returned.groq = "no_client"
              => (~returned.requested /\ returned.out = GroqUnavailable)
           /\ returned.groq = "api_error" => returned.out = GroqFailed
           /\ returned.requested
              => /\ Len(prompt.context) = Min(3, n)
                 /\ \A i \in 1 .. Len(prompt.context) :
                        prompt.context[i] = returned.context_chunks[i]
                 /\ Len(prompt.history) = k
                 /\ \A i \in 1 .. Len(prompt.history) :
                        LET msg == returned.chat_history[m - k + i]
                        IN  /\ prompt.history[i].content = msg.content
                            /\ prompt.history[i].role
                                   = IF msg.role = "user" THEN "User" ELSE "Assistant"

\* A request made with more chunks and more turns than the prompt takes,
\* the turns left out differing from those taken.
C24_Witness ==
    /\ returned.op = "generate_response_with_groq"
    /\ returned.groq = "ok"
    /\ Len(returned.context_chunks) > 3
    /\ Len(returned.chat_history) > 4
    /\ returned.chat_history[1].role = "user"
    /\ returned.chat_history[5].role = "system"
    /\ Len(returned.prompt.history) = 4

\* C25: an attempt of a task is re-scheduled only while its count of retries
\* is below 3, so a queued task makes at most 4 attempts; an attempt that
\* finds no project is not re-scheduled; the attempt that fails without
\* being re-scheduled has the count at 3, and the row it saves is failed with
\* a processing_error.
C25_TaskAttemptsAreBounded ==
    [][\A r \in RunIds :
         (kind[r] = "task" /\ pc'[r] # pc[r] /\ returned'.op = "task")
         => /\ retries[r] <= 3
            /\ (pc'[r] = "queued") = (returned'.result = "retry")
            /\ returned'.result = "retry"
               => (retries[r] < 3 /\ retries'[r] = retries[r] + 1)
            /\ pc[r] = "queued"
               => (deleted /\ returned'.result = "raised" /\ pc'[r] = "idle")
            /\ (returned'.result = "raised" /\ pc[r] # "queued")
               => /\ retries[r] = 3
                  /\ returned'.save = "stored"
                     => /\ db'.processing_status = "failed"
                        /\ db'.processing_error \notin {None, ""}]_vars

\* The fourth attempt of a task has failed.
C25_Witness ==
    /\ returned.op = "task"
    /\ returned.result = "raised"
    /\ returned.at = "fetch"
    /\ ~deleted
    /\ db.processing_status = "failed"

\* C26: a sweep of cleanup_failed_rag_tasks takes up the row exactly when it
\* finds it failed; the row it saves is the one it found, pending with
\* progress 0 and no processing_error, and the count returned is 1; a row it
\* finds in another status, or no row, is left as it is and the count is 0.
C26_CleanupResetsFailedOnly ==
    [][/\ \A r \in RunIds :
            (pc[r] # "sweep" /\ pc'[r] = "sweep")
            => (db # NoRow /\ db.processing_status = "failed" /\ db' = db)
       /\ returned'.op = "cleanup_failed_rag_tasks"
          => IF returned'.save = "stored"
             THEN /\ returned'.read.processing_status = "failed"
                  /\ db' = [returned'.read EXCEPT !.processing_status = "pending",
                                                  !.progress_percentage = 0,
                                                  !.processing_error = None]
                  /\ returned'.count = 1
             ELSE /\ db' = db
                  /\ returned'.count = 0
                  /\ returned'.save = "none"
                     => (db = NoRow \/ db.processing_status # "failed")]_vars

\* A sweep reset a failed row that held a document.
C26_Witness ==
    /\ returned.op = "cleanup_failed_rag_tasks"
    /\ returned.count = 1
    /\ returned.read.processing_status = "failed"
    /\ db.processing_status = "pending"
    /\ get_embeddings_data(db) # NoDocument

\* C27: in every state the row has is_processed exactly when its
\* processing_status is completed.
C27_ProcessedIffCompleted ==
    db # NoRow
    => (db.is_processed = (db.processing_status = "completed"))

\* The row holds the result of a run that succeeded: is_processed and the
\* document.
HoldsResult(row) ==
    row # NoRow /\ row.is_processed /\ get_embeddings_data(row) # NoDocument

\* C28: when the row holds the result of a successful run, the step of a
\* run or of a sweep that read the row before that result was stored, and
\* does not itself end in success, leaves the row processed with its
\* document.
C28_StaleSaveKeepsResult ==
    [][\A r \in RunIds :
         (/\ HoldsResult(db)
          /\ pc[r] \in RunSteps \cup {"sweep"}
          /\ pc'[r] # pc[r]
          /\ loc[r] # NoRow
          /\ loc[r].embeddings_data # db.embeddings_data
          /\ ~(returned'.op \in Kinds /\ returned'.result = "success"))
         => /\ db'.is_processed
            /\ db'.embeddings_data = db.embeddings_data]_vars

\* C29: in every state a row whose processing_status is not failed has no
\* processing_error (null or empty).
C29_ErrorOnlyWhenFailed ==
    (db # NoRow /\ db.processing_status # "failed")
    => db.processing_error \in {None, ""}

\* Where in the text the i-th iteration's slice ends.
SpanEnd(i) == Min(scan.spans[i].end, Len(scan.text))

\* C30: for chunk_size >= 1 and overlap >= 0, each chunk returned ends
\* later in the text than every chunk returned before it, and a text no
\* longer than chunk_size gives no more than one chunk.
C30_ChunksEndLater ==
    (/\ scan.at = "returned"
     /\ scan.chunk_size >= 1
     /\ scan.overlap >= 0)
    => /\ \A i, j \in 1 .. Len(scan.spans) :
              (i < j /\ scan.spans[i].kept /\ scan.spans[j].kept)
              => SpanEnd(i) < SpanEnd(j)
       /\ Len(scan.text) <= scan.chunk_size => Len(scan.chunks) <= 1

====
